---- MODULE Spec2Model ----
(***************************************************************************)
(* libspinscale: qutexes, LockSets, lockvokers and serialized              *)
(* continuations running on single-threaded reactors (ComponentThreads).   *)
(*                                                                         *)
(* Every Qutex method body that runs between lock.acquire() and            *)
(* lock.release() is one atomic step.  What a method does after dropping   *)
(* the SpinLock (the awaken() of the queue front) is a step of its own, so *)
(* that other reactors interleave with it exactly where the code lets      *)
(* them.                                                                   *)
(***************************************************************************)
EXTENDS Integers, Sequences, FiniteSets, TLC

\* ---- bounds of the model ------------------------------------------------
NumWaiters == 4
ContentionWaiters == 3
NumQutexes == 3
NumReactors == 2
MainQutexes == 2
WideWaiters == 2
MaxRequired == 3
QueueWaiters == 4

Waiters == 1..NumWaiters
Qutexes == 1..NumQutexes
Reactors == 1..NumReactors
NoWaiter == 0
NoQutex == 0
\* a continuation without an entry in the acquisition history
NoEntry == [wanted |-> NoQutex, held |-> {}]

VARIABLES
    queue,                      \* Qutex::queue, front first
    isOwned,                    \* Qutex::isOwned
    locks,                      \* LockSet::locks (the qutexes, declaration order)
    target,                     \* LockerAndInvoker::target
    isAwakeOrBeingAwakened,     \* SerializedAsynchronousContinuation flag
    allLocksAcquired,           \* LockSet::allLocksAcquired
    registeredInQutexQueues,    \* LockSet::registeredInQutexQueues
    hasBeenReleased,            \* LockUsageDesc::hasBeenReleased, per qutex
    ioq,                        \* io_service task queue of each reactor
    thr,                        \* what each reactor thread is executing
    cst,                        \* life cycle of each continuation
    cidx,                       \* constructor: next lock to register in
    err,                        \* exception that escaped / crash
    heldBy,                     \* history: whose tryAcquire holds the qutex
    relCount,                   \* history: Qutex::release calls per waiter
    bodyRuns,                   \* history: invocations of the body
    failed,                     \* history: an execution of the waiter failed
    wakePosts,                  \* history: posts by awaken(false) since last run
    cbPosted,                   \* original callback posted to the caller
    lastCall,                   \* history: last Qutex call made through the API
    scenario,                   \* which continuations the application creates
    callerContinuation,         \* Callback::callerContinuation (NoWaiter: none)
    cbFnT,                      \* the OriginalCbFnT a continuation is built with
    timedOut,                   \* the deadlock timeout has elapsed since creation
    acquisitionHistory,         \* QutexAcquisitionHistoryTracker map
    deadlocks,                  \* history: handleDeadlock calls
    gridlocks,                  \* history: handleGridlock calls
    cycles,                     \* history: graphs the complete stage found cyclic
    caller,                     \* PostedAsynchronousContinuation::caller
    wokenBy                     \* history: whom a continuation's releases have
                                \* awakened and who has not executed since

vars == <<queue, isOwned, locks, target, isAwakeOrBeingAwakened,
          allLocksAcquired, registeredInQutexQueues, hasBeenReleased, ioq,
          thr, cst, cidx, err, heldBy, relCount, bodyRuns, failed, wakePosts,
          cbPosted, lastCall, scenario, callerContinuation, cbFnT, timedOut,
          acquisitionHistory, deadlocks, gridlocks, cycles, caller, wokenBy>>

qutexVars == <<queue, isOwned>>
lockSetVars == <<allLocksAcquired, registeredInQutexQueues, hasBeenReleased>>
configVars == <<locks, target, scenario, callerContinuation, cbFnT, caller>>
debugVars == <<timedOut, acquisitionHistory, deadlocks, gridlocks, cycles>>
historyVars == <<heldBy, relCount, bodyRuns, failed, wakePosts, wokenBy>>

\* ---- sequences ------------------------------------------------------------
Range(s) == {s[i] : i \in 1..Len(s)}

RECURSIVE SeqsOver(_, _)
SeqsOver(S, n) ==
    IF n = 0 THEN {<<>>}
    ELSE LET shorter == SeqsOver(S, n - 1)
         IN  shorter \cup {Append(s, x) : s \in {t \in shorter : Len(t) = n - 1}, x \in S}

Distinct(s) == \A i, j \in 1..Len(s) : i # j => s[i] # s[j]

\* the qutex lists a LockSet is built from, over the qutexes 1..k
LockLists(k) == {s \in SeqsOver(1..k, k) : Len(s) >= 1 /\ Distinct(s)}

IndexOf(s, x) == CHOOSE i \in 1..Len(s) : s[i] = x

\* std::list::erase(it) for the node that holds x
EraseNode(s, x) ==
    IF x \in Range(s)
    THEN LET k == IndexOf(s, x)
         IN  SubSeq(s, 1, k - 1) \o SubSeq(s, k + 1, Len(s))
    ELSE s

\* ---- Qutex (pure parts; the callers below run them under the SpinLock) ----

\* Qutex::registerInQueue: queue.insert(queue.end(), lockvoker)
registerInQueue(s, w) == Append(s, w)

\* (variant: the front node is erased, whoever it holds)
unregisterFromQueueFront(s, w) == Tail(s)

\* Qutex::unregisterFromQueue: queue.erase(it)
unregisterFromQueue(s, w) == EraseNode(s, w)

\* (variant: the scan starts at the queue front instead of the tail)
FoundInRearFromFront(s, w, n) ==
    \E i \in 1..n : i <= Len(s) /\ s[i] = w

\* the scan of tryAcquire over the last n entries, from the tail
FoundInRear(s, w, n) ==
    \E i \in 0..(n - 1) : i < Len(s) /\ s[Len(s) - i] = w

\* (variant: the isOwned test is missing)
tryAcquireIgnoresOwner(s, owned, w, nRequiredLocks) ==
    LET qNItems == Len(s)
        nRearItemsToScan == qNItems \div nRequiredLocks
    IN  IF qNItems < 1
        THEN [err |-> TRUE, ret |-> FALSE, isOwned |-> owned]
        ELSE IF qNItems = 1 \/ nRearItemsToScan < 1
        THEN [err |-> FALSE, ret |-> TRUE, isOwned |-> TRUE]
        ELSE IF nRequiredLocks = 1
        THEN IF s[1] = w
             THEN [err |-> FALSE, ret |-> TRUE, isOwned |-> TRUE]
             ELSE [err |-> FALSE, ret |-> FALSE, isOwned |-> owned]
        ELSE IF FoundInRear(s, w, nRearItemsToScan)
        THEN [err |-> FALSE, ret |-> FALSE, isOwned |-> owned]
        ELSE [err |-> FALSE, ret |-> TRUE, isOwned |-> TRUE]

\* (variant: a single-lock waiter is compared with queue.back())
tryAcquireSingleAtBack(s, owned, w, nRequiredLocks) ==
    LET qNItems == Len(s)
        nRearItemsToScan == qNItems \div nRequiredLocks
    IN  IF qNItems < 1
        THEN [err |-> TRUE, ret |-> FALSE, isOwned |-> owned]
        ELSE IF owned
        THEN [err |-> FALSE, ret |-> FALSE, isOwned |-> owned]
        ELSE IF qNItems = 1 \/ nRearItemsToScan < 1
        THEN [err |-> FALSE, ret |-> TRUE, isOwned |-> TRUE]
        ELSE IF nRequiredLocks = 1
        THEN IF s[Len(s)] = w
             THEN [err |-> FALSE, ret |-> TRUE, isOwned |-> TRUE]
             ELSE [err |-> FALSE, ret |-> FALSE, isOwned |-> owned]
        ELSE IF FoundInRear(s, w, nRearItemsToScan)
        THEN [err |-> FALSE, ret |-> FALSE, isOwned |-> owned]
        ELSE [err |-> FALSE, ret |-> TRUE, isOwned |-> TRUE]

\* Qutex::tryAcquire.  ret: the value returned; err: an exception is thrown.
tryAcquire(s, owned, w, nRequiredLocks) ==
    LET qNItems == Len(s)
        nRearItemsToScan == qNItems \div nRequiredLocks
    IN  IF qNItems < 1
        THEN [err |-> TRUE, ret |-> FALSE, isOwned |-> owned]
        ELSE IF owned
        THEN [err |-> FALSE, ret |-> FALSE, isOwned |-> owned]
        ELSE IF qNItems = 1 \/ nRearItemsToScan < 1
        THEN [err |-> FALSE, ret |-> TRUE, isOwned |-> TRUE]
        ELSE IF nRequiredLocks = 1
        THEN IF s[1] = w
             THEN [err |-> FALSE, ret |-> TRUE, isOwned |-> TRUE]
             ELSE [err |-> FALSE, ret |-> FALSE, isOwned |-> owned]
        ELSE IF FoundInRear(s, w, nRearItemsToScan)
        THEN [err |-> FALSE, ret |-> FALSE, isOwned |-> owned]
        ELSE [err |-> FALSE, ret |-> TRUE, isOwned |-> TRUE]

\* (variant: the front node always goes to the back)
SpliceFrontToBack(s, idx) == Tail(s) \o <<s[1]>>

\* queue.splice(insertPos, queue, frontIt): the front node is moved before the
\* node at 0-based index idx, or to the back when idx = -1
SpliceFront(s, idx) ==
    IF idx = -1 \/ idx >= Len(s)
    THEN Tail(s) \o <<s[1]>>
    ELSE IF idx = 0 THEN s
    ELSE SubSeq(s, 2, idx) \o <<s[1]>> \o SubSeq(s, idx + 1, Len(s))

\* (variant: the front is awakened whatever the queue length)
backoffWakesSoleWaiter(s, owned, w, nRequiredLocks) ==
    LET nQItems == Len(s)
    IN  IF nQItems < 1
        THEN [err |-> TRUE, queue |-> s, isOwned |-> owned, wake |-> NoWaiter]
        ELSE IF s[1] = w /\ nRequiredLocks = 1
        THEN [err |-> TRUE, queue |-> s, isOwned |-> owned, wake |-> NoWaiter]
        ELSE LET rotated ==
                     IF s[1] = w /\ nQItems > 1
                     THEN SpliceFront(s, IF nQItems > nRequiredLocks
                                         THEN nRequiredLocks ELSE -1)
                     ELSE s
             IN  IF rotated[1] = w /\ nQItems > 1
                 THEN [err |-> TRUE, queue |-> rotated, isOwned |-> FALSE,
                       wake |-> NoWaiter]
                 ELSE [err |-> FALSE, queue |-> rotated, isOwned |-> FALSE,
                       wake |-> rotated[1]]

\* (variant: on an empty queue the qutex is given up instead of an error)
backoffOnEmptyGivesUp(s, owned, w, nRequiredLocks) ==
    [err |-> Len(s) >= 1, queue |-> s, isOwned |-> FALSE, wake |-> NoWaiter]

\* Qutex::backoff up to lock.release() and the check that follows it.
\* wake: the waiter newFront.awaken() is then called on (NoWaiter: nobody).
backoff(s, owned, w, nRequiredLocks) ==
    LET nQItems == Len(s)
    IN  IF nQItems < 1
        THEN [err |-> TRUE, queue |-> s, isOwned |-> owned, wake |-> NoWaiter]
        ELSE IF s[1] = w /\ nRequiredLocks = 1
        THEN [err |-> TRUE, queue |-> s, isOwned |-> owned, wake |-> NoWaiter]
        ELSE LET indexOfItemToInsertCurrFrontBefore ==
                     IF nQItems > nRequiredLocks THEN nRequiredLocks ELSE -1
                 rotated ==
                     IF s[1] = w /\ nQItems > 1
                     THEN SpliceFront(s, indexOfItemToInsertCurrFrontBefore)
                     ELSE s
                 newFront == rotated[1]
             IN  IF newFront = w /\ nQItems > 1
                 THEN [err |-> TRUE, queue |-> rotated, isOwned |-> FALSE,
                       wake |-> NoWaiter]
                 ELSE [err |-> FALSE, queue |-> rotated, isOwned |-> FALSE,
                       wake |-> IF nQItems > 1 THEN newFront ELSE NoWaiter]

\* (variant: the last waiter of the queue is awakened)
releaseWakesBack(s, owned) ==
    IF ~owned
    THEN [err |-> TRUE, isOwned |-> owned, wake |-> NoWaiter]
    ELSE [err |-> FALSE, isOwned |-> FALSE,
          wake |-> IF s = <<>> THEN NoWaiter ELSE s[Len(s)]]

\* (variant: the front is awakened only when the queue holds one entry)
releaseWakesOnlySoleWaiter(s, owned) ==
    IF ~owned
    THEN [err |-> TRUE, isOwned |-> owned, wake |-> NoWaiter]
    ELSE [err |-> FALSE, isOwned |-> FALSE,
          wake |-> IF Len(s) = 1 THEN s[1] ELSE NoWaiter]

\* Qutex::release up to lock.release().  wake: whom front.awaken() is called on.
release(s, owned) ==
    IF ~owned
    THEN [err |-> TRUE, isOwned |-> owned, wake |-> NoWaiter]
    ELSE [err |-> FALSE, isOwned |-> FALSE,
          wake |-> IF s = <<>> THEN NoWaiter ELSE s[1]]

\* ---- lockvoker wake-up -----------------------------------------------------

\* (variant: the previous value of the flag is not looked at)
awakenPostsAlways(prevVal, forceAwaken) == TRUE

\* LockerAndInvoker::awaken: the exchange(true) and whether a task is posted
awakenPosts(prevVal, forceAwaken) == ~(prevVal = TRUE /\ ~forceAwaken)

\* The queues hold the only shared_ptrs to the registered copy of a lockvoker:
\* once a waiter is erased from all of them the reference release()/backoff()
\* kept to it dangles.
InSomeQueue(w) == \E q \in Qutexes : w \in Range(queue[q])

\* ---- reactor threads ---------------------------------------------------------

Idle == [pc |-> "idle", w |-> NoWaiter, i |-> 0, n |-> 0, wk |-> NoWaiter,
         ff |-> NoQutex, gl |-> FALSE]

At(r, pc) == thr[r].pc = pc
Running == err = "none"

LockSetSize(w) == Len(locks[w])

\* effect of LockerAndInvoker::awaken(forceAwaken) called on waiter w
awakenFlag(w) == [isAwakeOrBeingAwakened EXCEPT ![w] = TRUE]
awakenIoq(w, forceAwaken) ==
    IF awakenPosts(isAwakeOrBeingAwakened[w], forceAwaken)
    THEN [ioq EXCEPT ![target[w]] = Append(@, w)]
    ELSE ioq
awakenCount(w, forceAwaken) ==
    IF awakenPosts(isAwakeOrBeingAwakened[w], forceAwaken) /\ ~forceAwaken
    THEN [wakePosts EXCEPT ![w] = @ + 1]
    ELSE wakePosts

\* (variant: hasBeenReleased is not looked at)
NextUnreleasedNoSkip(w, i) == i

\* LockSet::release: index of the next LockUsageDesc that is not skipped
RECURSIVE NextUnreleased(_, _)
NextUnreleased(w, i) ==
    IF i > LockSetSize(w) THEN i
    ELSE IF hasBeenReleased[w][locks[w][i]] THEN NextUnreleased(w, i + 1)
    ELSE i

\* The application creates up to n continuations, with these qutex lists, on
\* these reactors: a few continuations with LockSets of up to NumQutexes
\* qutexes,
WideLockSets == "wide"
\* more continuations contending for fewer qutexes
ManyContinuations == "many"
\* every continuation on the same reactor
OneReactor == "oneReactor"
\* N continuations with the LockSet {A}, on one reactor
SingleQutex == "singleQutex"
\* a build with CONFIG_ENABLE_DEBUG_LOCKS: continuations with one-qutex
\* LockSets, some of them created inside the body of another one
DebugBuild == "debug"
\* continuations with the LockSet {A} whose original callbacks are followed
\* into the io_service queue of the caller's reactor
Callbacks == "callbacks"
PostsCallbacks == scenario = Callbacks
\* the task that invokes the original callback of continuation w
CallbackOf(w) == NumWaiters + w
\* the same build with LockSets of two qutexes, which back off
DebugWide == "debugWide"
DebugLocks == scenario \in {DebugBuild, DebugWide}
\* N continuations with the LockSet {A}, spread over the reactors
CrossReactor == "crossReactor"

\* LockerAndInvoker::isDeadlockLikely and isGridlockLikely: false outside a
\* debug build
isDeadlockLikely(w) == DebugLocks /\ timedOut[w]
isGridlockLikely(w) == isDeadlockLikely(w)

MainLockLists == LockLists(MainQutexes)
AllLockLists == LockLists(NumQutexes)

ScenarioN ==
    [many |-> ContentionWaiters, wide |-> WideWaiters,
     oneReactor |-> ContentionWaiters, singleQutex |-> ContentionWaiters,
     debug |-> NumWaiters, callbacks |-> ContentionWaiters,
     debugWide |-> NumWaiters, crossReactor |-> ContentionWaiters]
ScenarioLists ==
    [many |-> MainLockLists, wide |-> AllLockLists, oneReactor |-> MainLockLists,
     singleQutex |-> {<<1>>}, debug |-> {<<1>>, <<2>>},
     callbacks |-> {<<1>>}, debugWide |-> {<<1, 2>>, <<2>>},
     crossReactor |-> {<<1>>}]
ScenarioReactors ==
    [many |-> Reactors, wide |-> Reactors, oneReactor |-> {1},
     singleQutex |-> {1}, debug |-> Reactors, callbacks |-> Reactors,
     debugWide |-> Reactors, crossReactor |-> Reactors]

InitOf(scn) ==
    /\ queue = [q \in Qutexes |-> <<>>]
    /\ isOwned = [q \in Qutexes |-> FALSE]
    /\ locks = [w \in Waiters |-> <<>>]
    /\ target = [w \in Waiters |-> 1]
    /\ isAwakeOrBeingAwakened = [w \in Waiters |-> FALSE]
    /\ allLocksAcquired = [w \in Waiters |-> FALSE]
    /\ registeredInQutexQueues = [w \in Waiters |-> FALSE]
    /\ hasBeenReleased = [w \in Waiters |-> [q \in Qutexes |-> FALSE]]
    /\ ioq = [r \in Reactors |-> <<>>]
    /\ thr = [r \in Reactors |-> Idle]
    /\ cst = [w \in Waiters |-> "unborn"]
    /\ cidx = [w \in Waiters |-> 0]
    /\ err = "none"
    /\ heldBy = [q \in Qutexes |-> {}]
    /\ relCount = [w \in Waiters |-> [q \in Qutexes |-> 0]]
    /\ bodyRuns = [w \in Waiters |-> 0]
    /\ failed = [w \in Waiters |-> FALSE]
    /\ wakePosts = [w \in Waiters |-> 0]
    /\ cbPosted = [w \in Waiters |-> FALSE]
    /\ lastCall = [op |-> "none"]
    /\ scenario = scn
    /\ callerContinuation = [w \in Waiters |-> NoWaiter]
    /\ cbFnT = [w \in Waiters |-> 1]
    /\ timedOut = [w \in Waiters |-> FALSE]
    /\ acquisitionHistory = [w \in Waiters |-> NoEntry]
    /\ deadlocks = {}
    /\ gridlocks = {}
    /\ cycles = {}
    /\ caller = [w \in Waiters |-> 1]
    /\ wokenBy = [w \in Waiters |-> {}]

Init == InitOf(WideLockSets)

\* Qutexes, reactors and continuations are interchangeable, so only one
\* representative of each renaming is constructed: continuations are created
\* in the order of their numbers, and a qutex (a reactor) that no earlier
\* continuation names is the lowest-numbered one not yet named.
Max(S) == IF S = {} THEN 0 ELSE CHOOSE x \in S : \A y \in S : y <= x
Born == {v \in Waiters : cst[v] # "unborn"}
Canonical(ls, r) ==
    /\ r <= Max({target[v] : v \in Born}) + 1
    /\ \A i \in 1..Len(ls) :
           ls[i] <= Max(UNION {Range(locks[v]) : v \in Born}
                            \cup {ls[j] : j \in 1..(i - 1)}) + 1

\* (variant: firstWake does not store true into the flag)
ConstructFlagUnset(w, ls, r) ==
    /\ Running
    /\ cst[w] = "unborn"
    /\ IF w = 1 THEN TRUE ELSE cst[w - 1] # "unborn"
    /\ w <= ScenarioN[scenario]
    /\ ls \in ScenarioLists[scenario]
    /\ r \in ScenarioReactors[scenario]
    /\ Canonical(ls, r)
    /\ locks' = [locks EXCEPT ![w] = ls]
    /\ target' = [target EXCEPT ![w] = r]
    /\ isAwakeOrBeingAwakened' = isAwakeOrBeingAwakened
    /\ cst' = [cst EXCEPT ![w] = "registering"]
    /\ cidx' = [cidx EXCEPT ![w] = 1]
    /\ UNCHANGED <<qutexVars, lockSetVars, ioq, thr, err, historyVars,
                   cbPosted, lastCall, scenario, callerContinuation, cbFnT,
                   caller, debugVars>>

\* SerializedAsynchronousContinuation and LockerAndInvoker constructors, up to
\* the store(true) of firstWake; nothing of it is visible to other threads yet
Construct(w, ls, r) ==
    /\ Running
    /\ cst[w] = "unborn"
    /\ IF w = 1 THEN TRUE ELSE cst[w - 1] # "unborn"
    /\ w <= ScenarioN[scenario]
    /\ ls \in ScenarioLists[scenario]
    /\ r \in ScenarioReactors[scenario]
    /\ Canonical(ls, r)
    /\ locks' = [locks EXCEPT ![w] = ls]
    /\ target' = [target EXCEPT ![w] = r]
    /\ isAwakeOrBeingAwakened' = [isAwakeOrBeingAwakened EXCEPT ![w] = TRUE]
    /\ cst' = [cst EXCEPT ![w] = "registering"]
    /\ cidx' = [cidx EXCEPT ![w] = 1]
    /\ UNCHANGED <<qutexVars, lockSetVars, ioq, thr, err, historyVars,
                   cbPosted, lastCall, scenario, callerContinuation, cbFnT,
                   caller, debugVars>>

\* (variant: the flag is set before the loop instead of after it)
RegisterStepFlagFirst(w) ==
    /\ Running
    /\ cst[w] = "registering"
    /\ LET q == locks[w][cidx[w]]
           last == cidx[w] = LockSetSize(w)
       IN  /\ queue' = [queue EXCEPT ![q] = registerInQueue(@, w)]
           /\ cidx' = [cidx EXCEPT ![w] = @ + 1]
           /\ registeredInQutexQueues' =
                  [registeredInQutexQueues EXCEPT ![w] = TRUE]
           /\ cst' = [cst EXCEPT ![w] = IF last THEN "posting" ELSE @]
    /\ UNCHANGED <<isOwned, configVars, isAwakeOrBeingAwakened,
                   allLocksAcquired, hasBeenReleased, ioq, thr, err,
                   historyVars, cbPosted, lastCall,
                   debugVars>>

\* LockSet::registerInQutexQueues, one Qutex::registerInQueue per step
RegisterStep(w) ==
    /\ Running
    /\ cst[w] = "registering"
    /\ LET q == locks[w][cidx[w]]
           last == cidx[w] = LockSetSize(w)
       IN  /\ queue' = [queue EXCEPT ![q] = registerInQueue(@, w)]
           /\ cidx' = [cidx EXCEPT ![w] = @ + 1]
           /\ registeredInQutexQueues' =
                  [registeredInQutexQueues EXCEPT ![w] = @ \/ last]
           /\ cst' = [cst EXCEPT ![w] = IF last THEN "posting" ELSE @]
    /\ UNCHANGED <<isOwned, configVars, isAwakeOrBeingAwakened,
                   allLocksAcquired, hasBeenReleased, ioq, thr, err,
                   historyVars, cbPosted, lastCall,
                   debugVars>>

\* firstWake: awaken(true)
FirstWakePost(w) ==
    /\ Running
    /\ cst[w] = "posting"
    /\ isAwakeOrBeingAwakened' = awakenFlag(w)
    /\ ioq' = awakenIoq(w, TRUE)
    /\ wakePosts' = awakenCount(w, TRUE)
    /\ wokenBy' = wokenBy
    /\ cst' = [cst EXCEPT ![w] = "waiting"]
    /\ UNCHANGED <<qutexVars, configVars, lockSetVars, thr, cidx, err, heldBy,
                   relCount, bodyRuns, failed, cbPosted, lastCall,
                   debugVars>>

\* The reactor takes the next task: LockerAndInvoker::operator() up to the
\* precondition checks of LockSet::tryAcquireOrBackOff
Dequeue(r) ==
    /\ Running
    /\ At(r, "idle")
    /\ ioq[r] # <<>>
    /\ Head(ioq[r]) \in Waiters
    /\ LET w == Head(ioq[r])
       IN  /\ ioq' = [ioq EXCEPT ![r] = Tail(@)]
           /\ wakePosts' = [wakePosts EXCEPT ![w] = 0]
           /\ wokenBy' = [v \in Waiters |-> wokenBy[v] \ {w}]
           /\ IF target[w] # r
              THEN err' = "wrongThread" /\ thr' = thr
              ELSE IF ~registeredInQutexQueues[w]
              THEN err' = "notRegistered" /\ thr' = thr
              ELSE IF allLocksAcquired[w]
              THEN err' = "alreadyAcquired" /\ thr' = thr
              ELSE /\ err' = err
                   /\ thr' = [thr EXCEPT ![r] =
                                 [Idle EXCEPT !.pc = "acquire", !.w = w, !.i = 1,
                                              !.gl = isGridlockLikely(w)]]
    /\ UNCHANGED <<qutexVars, configVars, isAwakeOrBeingAwakened, lockSetVars,
                   cst, cidx, heldBy, relCount, bodyRuns, failed, cbPosted, lastCall,
                   debugVars>>

\* (variant: a failed tryAcquire does not leave the loop)
tryAcquireOrBackOffNextNoBreak(t, ret, q, size) ==
    IF t.i = size
    THEN [t EXCEPT !.pc = "unregister", !.i = 1, !.n = t.n + 1]
    ELSE [t EXCEPT !.i = t.i + 1, !.n = t.n + 1]

\* the loop of LockSet::tryAcquireOrBackOff: one Qutex::tryAcquire
tryAcquireOrBackOffNext(t, ret, q, size) ==
    IF ret
    THEN IF t.i = size
         THEN [t EXCEPT !.pc = "unregister", !.i = 1, !.n = t.n + 1]
         ELSE [t EXCEPT !.i = t.i + 1, !.n = t.n + 1]
    ELSE IF t.n < size /\ t.n > 0
         THEN [t EXCEPT !.pc = "backoff", !.i = 1, !.ff = q]
         ELSE [t EXCEPT !.pc = "allow", !.ff = q]

TryAcquireStep(r) ==
    /\ Running
    /\ At(r, "acquire")
    /\ LET t == thr[r]
           w == t.w
           q == locks[w][t.i]
           res == tryAcquire(queue[q], isOwned[q], w, LockSetSize(w))
       IN  IF res.err
           THEN /\ err' = "tryAcquireEmptyQueue"
                /\ UNCHANGED <<isOwned, heldBy, allLocksAcquired, thr>>
           ELSE /\ err' = err
                /\ isOwned' = [isOwned EXCEPT ![q] = res.isOwned]
                /\ heldBy' = [heldBy EXCEPT ![q] =
                                 IF res.ret THEN @ \cup {w} ELSE @]
                /\ thr' = [thr EXCEPT ![r] =
                              tryAcquireOrBackOffNext(t, res.ret, q, LockSetSize(w))]
                /\ allLocksAcquired' =
                       [allLocksAcquired EXCEPT ![w] =
                           @ \/ (res.ret /\ t.i = LockSetSize(w))]
    /\ UNCHANGED <<queue, configVars, isAwakeOrBeingAwakened,
                   registeredInQutexQueues, hasBeenReleased, ioq, cst, cidx,
                   relCount, bodyRuns, failed, wakePosts, wokenBy, cbPosted, lastCall,
                   debugVars>>

\* (variant: only locks[0] is backed off)
backoffLoopNextOnlyFirst(t) ==
    [t EXCEPT !.pc = "allow", !.wk = NoWaiter]

\* the backoff loop of LockSet::tryAcquireOrBackOff: where it goes after the
\* backoff of locks[i]
backoffLoopNext(t) ==
    IF t.i < t.n
    THEN [t EXCEPT !.pc = "backoff", !.i = t.i + 1, !.wk = NoWaiter]
    ELSE [t EXCEPT !.pc = "allow", !.wk = NoWaiter]

\* Qutex::backoff under the SpinLock
BackoffStep(r) ==
    /\ Running
    /\ At(r, "backoff")
    /\ LET t == thr[r]
           w == t.w
           q == locks[w][t.i]
           res == backoff(queue[q], isOwned[q], w, LockSetSize(w))
       IN  /\ queue' = [queue EXCEPT ![q] = res.queue]
           /\ isOwned' = [isOwned EXCEPT ![q] = res.isOwned]
           /\ heldBy' = [heldBy EXCEPT ![q] =
                            IF res.isOwned THEN @ ELSE @ \ {w}]
           /\ err' = IF res.err THEN "backoff" ELSE err
           /\ thr' = [thr EXCEPT ![r] =
                         IF res.err THEN t
                         ELSE IF res.wake # NoWaiter
                         THEN [t EXCEPT !.pc = "backoffWake", !.wk = res.wake]
                         ELSE backoffLoopNext(t)]
    /\ UNCHANGED <<configVars, isAwakeOrBeingAwakened, lockSetVars, ioq, cst,
                   cidx, relCount, bodyRuns, failed, wakePosts, wokenBy, cbPosted, lastCall,
                   debugVars>>

\* awaken() through the reference that release()/backoff() read under the
\* SpinLock.  When the waiter has meanwhile left every queue the reference
\* dangles: the call either finds the memory intact (the flag of a waiter that
\* acquired its locks is still true, nothing is posted) or crashes.
Wake(r, next, outcome) ==
    LET wk == thr[r].wk
    IN  IF InSomeQueue(wk)
        THEN /\ outcome = "intact"
             /\ isAwakeOrBeingAwakened' = awakenFlag(wk)
             /\ ioq' = awakenIoq(wk, FALSE)
             /\ wakePosts' = awakenCount(wk, FALSE)
             /\ thr' = [thr EXCEPT ![r] = next]
             /\ err' = err
        ELSE IF outcome = "intact"
        THEN /\ isAwakeOrBeingAwakened' = awakenFlag(wk)
             /\ ioq' = awakenIoq(wk, FALSE)
             /\ wakePosts' = awakenCount(wk, FALSE)
             /\ thr' = [thr EXCEPT ![r] = next]
             /\ err' = err
        ELSE /\ err' = "danglingAwaken"
             /\ UNCHANGED <<isAwakeOrBeingAwakened, ioq, wakePosts, thr>>

WakeOutcomes == {"intact", "crash"}

\* continuation w's release has called awaken() on wk
awakenedBy(w, wk) ==
    IF PostsCallbacks THEN [wokenBy EXCEPT ![w] = @ \cup {wk}] ELSE wokenBy

\* newFront.awaken() at the end of Qutex::backoff
BackoffWake(r) ==
    /\ Running
    /\ At(r, "backoffWake")
    /\ \E outcome \in WakeOutcomes : Wake(r, backoffLoopNext(thr[r]), outcome)
    /\ wokenBy' = wokenBy
    /\ UNCHANGED <<qutexVars, configVars, lockSetVars, cst, cidx, heldBy,
                   relCount, bodyRuns, failed, cbPosted, lastCall,
                   debugVars>>

\* (variant: the lockvoker posts itself again after a failed attempt)
AllowAwakeningReposts(r) ==
    /\ Running
    /\ At(r, "allow")
    /\ isAwakeOrBeingAwakened' =
           [isAwakeOrBeingAwakened EXCEPT ![thr[r].w] = FALSE]
    /\ thr' = [thr EXCEPT ![r] =
                  IF thr[r].gl THEN [thr[r] EXCEPT !.pc = "track"] ELSE Idle]
    /\ failed' = [failed EXCEPT ![thr[r].w] = TRUE]
    /\ ioq' = [ioq EXCEPT ![target[thr[r].w]] = Append(@, thr[r].w)]
    /\ UNCHANGED <<qutexVars, configVars, lockSetVars, cst, cidx, err,
                   heldBy, relCount, bodyRuns, wakePosts, wokenBy, cbPosted, lastCall,
                   debugVars>>

\* allowAwakening() and the return of operator() after a failed attempt
AllowAwakening(r) ==
    /\ Running
    /\ At(r, "allow")
    /\ isAwakeOrBeingAwakened' =
           [isAwakeOrBeingAwakened EXCEPT ![thr[r].w] = FALSE]
    /\ thr' = [thr EXCEPT ![r] =
                  IF thr[r].gl THEN [thr[r] EXCEPT !.pc = "track"] ELSE Idle]
    /\ failed' = [failed EXCEPT ![thr[r].w] = TRUE]
    /\ UNCHANGED <<qutexVars, configVars, lockSetVars, ioq, cst, cidx, err,
                   heldBy, relCount, bodyRuns, wakePosts, wokenBy, cbPosted, lastCall,
                   debugVars>>

\* LockSet::unregisterFromQutexQueues, one Qutex::unregisterFromQueue per
\* step; after the last one operator() invokes the continuation body
UnregisterStep(r) ==
    /\ Running
    /\ At(r, "unregister")
    /\ LET t == thr[r]
           w == t.w
           q == locks[w][t.i]
           last == t.i = LockSetSize(w)
       IN  /\ queue' = [queue EXCEPT ![q] = unregisterFromQueue(@, w)]
           /\ thr' = [thr EXCEPT ![r] =
                         IF ~last THEN [t EXCEPT !.i = t.i + 1]
                         ELSE IF t.gl THEN [t EXCEPT !.pc = "untrack"]
                         ELSE Idle]
           /\ bodyRuns' = [bodyRuns EXCEPT ![w] =
                               IF last /\ ~t.gl THEN @ + 1 ELSE @]
           /\ cst' = [cst EXCEPT ![w] = IF last /\ ~t.gl THEN "body" ELSE @]
    /\ UNCHANGED <<isOwned, configVars, isAwakeOrBeingAwakened, lockSetVars,
                   ioq, cidx, err, heldBy, relCount, failed, wakePosts, wokenBy,
                   cbPosted, lastCall,
                   debugVars>>

\* ---- completion of a continuation (runs on its target reactor) --------------

\* SerializedAsynchronousContinuation::releaseQutexEarly -> LockSet::
\* releaseQutexEarly, up to the lock.release() of Qutex::release
ReleaseQutexEarly(w, q) ==
    /\ Running
    /\ cst[w] = "body"
    /\ At(target[w], "idle")
    /\ q \in Range(locks[w])
    /\ LET r == target[w]
           res == release(queue[q], isOwned[q])
       IN  IF ~allLocksAcquired[w]
           THEN /\ err' = "releaseEarlyNotAcquired"
                /\ UNCHANGED <<isOwned, heldBy, relCount, hasBeenReleased, thr>>
           ELSE IF hasBeenReleased[w][q]
           THEN UNCHANGED <<err, isOwned, heldBy, relCount, hasBeenReleased, thr>>
           ELSE /\ relCount' = [relCount EXCEPT ![w][q] = @ + 1]
                /\ isOwned' = [isOwned EXCEPT ![q] = res.isOwned]
                /\ heldBy' = [heldBy EXCEPT ![q] =
                                 IF res.err THEN @ ELSE @ \ {w}]
                /\ err' = IF res.err THEN "releaseUnowned" ELSE err
                /\ hasBeenReleased' =
                       [hasBeenReleased EXCEPT ![w][q] = ~res.err]
                /\ thr' = [thr EXCEPT ![r] =
                              IF res.err \/ res.wake = NoWaiter THEN @
                              ELSE [Idle EXCEPT !.pc = "earlyWake", !.w = w,
                                                !.wk = res.wake]]
    /\ UNCHANGED <<queue, configVars, isAwakeOrBeingAwakened, allLocksAcquired,
                   registeredInQutexQueues, ioq, cst, cidx, bodyRuns, failed,
                   wakePosts, wokenBy, cbPosted, lastCall,
                   debugVars>>

\* front.awaken() at the end of the Qutex::release of an early release
EarlyWake(r) ==
    /\ Running
    /\ At(r, "earlyWake")
    /\ \E outcome \in WakeOutcomes : Wake(r, Idle, outcome)
    /\ wokenBy' = awakenedBy(thr[r].w, thr[r].wk)
    /\ UNCHANGED <<qutexVars, configVars, lockSetVars, cst, cidx, heldBy,
                   relCount, bodyRuns, failed, cbPosted, lastCall,
                   debugVars>>

\* SerializedAsynchronousContinuation::callOriginalCb: the precondition
\* checks of LockSet::release. A body calls its original callback after the
\* continuations it created have called theirs.
CallOriginalCb(w) ==
    /\ Running
    /\ cst[w] = "body"
    /\ At(target[w], "idle")
    /\ \A c \in Waiters : callerContinuation[c] = w => cst[c] \in {"done", "refused"}
    /\ IF ~registeredInQutexQueues[w]
       THEN err' = "releaseNotRegistered" /\ UNCHANGED <<thr, cst>>
       ELSE IF ~allLocksAcquired[w]
       THEN err' = "releaseNotAcquired" /\ UNCHANGED <<thr, cst>>
       ELSE /\ err' = err
            /\ cst' = [cst EXCEPT ![w] = "releasing"]
            /\ thr' = [thr EXCEPT ![target[w]] =
                          [Idle EXCEPT !.pc = "release", !.w = w,
                                       !.i = NextUnreleased(w, 1)]]
    /\ UNCHANGED <<qutexVars, configVars, isAwakeOrBeingAwakened, lockSetVars,
                   ioq, cidx, historyVars, cbPosted, lastCall,
                   debugVars>>

\* (variant: the loop ends after the first release)
releaseLoopNextStopsEarly(t) ==
    [t EXCEPT !.pc = "release", !.i = LockSetSize(t.w) + 1, !.wk = NoWaiter]

\* the loop of LockSet::release: where it goes after the release of locks[i]
releaseLoopNext(t) ==
    [t EXCEPT !.pc = "release", !.i = NextUnreleased(t.w, t.i + 1),
              !.wk = NoWaiter]

\* one Qutex::release of the loop, under the SpinLock; past the last one,
\* allLocksAcquired = false and PostedAsynchronousContinuation::callOriginalCb
ReleaseStep(r) ==
    /\ Running
    /\ At(r, "release")
    /\ LET t == thr[r]
           w == t.w
       IN  IF t.i > LockSetSize(w)
           THEN /\ allLocksAcquired' = [allLocksAcquired EXCEPT ![w] = FALSE]
                /\ cbPosted' = [cbPosted EXCEPT ![w] = TRUE]
                /\ ioq' = IF PostsCallbacks
                          THEN [ioq EXCEPT ![caller[w]] =
                                   Append(@, CallbackOf(w))]
                          ELSE ioq
                /\ cst' = [cst EXCEPT ![w] = "done"]
                /\ thr' = [thr EXCEPT ![r] = Idle]
                /\ UNCHANGED <<isOwned, heldBy, relCount, err>>
           ELSE LET q == locks[w][t.i]
                    res == release(queue[q], isOwned[q])
                IN  /\ relCount' = [relCount EXCEPT ![w][q] = @ + 1]
                    /\ isOwned' = [isOwned EXCEPT ![q] = res.isOwned]
                    /\ heldBy' = [heldBy EXCEPT ![q] =
                                     IF res.err THEN @ ELSE @ \ {w}]
                    /\ err' = IF res.err THEN "releaseUnowned" ELSE err
                    /\ thr' = [thr EXCEPT ![r] =
                                  IF res.err THEN t
                                  ELSE IF res.wake # NoWaiter
                                  THEN [t EXCEPT !.pc = "releaseWake",
                                                 !.wk = res.wake]
                                  ELSE releaseLoopNext(t)]
                    /\ UNCHANGED <<allLocksAcquired, cbPosted, cst, ioq>>
    /\ UNCHANGED <<queue, configVars, isAwakeOrBeingAwakened,
                   registeredInQutexQueues, hasBeenReleased, cidx,
                   bodyRuns, failed, wakePosts, wokenBy, lastCall,
                   debugVars>>

\* front.awaken() at the end of Qutex::release
ReleaseWake(r) ==
    /\ Running
    /\ At(r, "releaseWake")
    /\ \E outcome \in WakeOutcomes : Wake(r, releaseLoopNext(thr[r]), outcome)
    /\ wokenBy' = awakenedBy(thr[r].w, thr[r].wk)
    /\ UNCHANGED <<qutexVars, configVars, lockSetVars, cst, cidx, heldBy,
                   relCount, bodyRuns, failed, cbPosted, lastCall,
                   debugVars>>

\* ---- the program ---------------------------------------------------------------

Next ==
    \/ \E w \in Waiters, ls \in AllLockLists, r \in Reactors :
          Construct(w, ls, r)
    \/ \E w \in Waiters : RegisterStep(w)
    \/ \E w \in Waiters : FirstWakePost(w)
    \/ \E r \in Reactors : Dequeue(r)
    \/ \E r \in Reactors : TryAcquireStep(r)
    \/ \E r \in Reactors : BackoffStep(r)
    \/ \E r \in Reactors : BackoffWake(r)
    \/ \E r \in Reactors : AllowAwakening(r)
    \/ \E r \in Reactors : UnregisterStep(r)
    \/ \E w \in Waiters, q \in Qutexes : ReleaseQutexEarly(w, q)
    \/ \E r \in Reactors : EarlyWake(r)
    \/ \E w \in Waiters : CallOriginalCb(w)
    \/ \E r \in Reactors : ReleaseStep(r)
    \/ \E r \in Reactors : ReleaseWake(r)

Spec == Init /\ [][Next]_vars

\* an application that releases no qutex early
NextNoEarlyRelease ==
    \/ \E w \in Waiters, ls \in AllLockLists, r \in Reactors :
          Construct(w, ls, r)
    \/ \E w \in Waiters : RegisterStep(w)
    \/ \E w \in Waiters : FirstWakePost(w)
    \/ \E r \in Reactors : Dequeue(r)
    \/ \E r \in Reactors : TryAcquireStep(r)
    \/ \E r \in Reactors : BackoffStep(r)
    \/ \E r \in Reactors : BackoffWake(r)
    \/ \E r \in Reactors : AllowAwakening(r)
    \/ \E r \in Reactors : UnregisterStep(r)
    \/ \E w \in Waiters : CallOriginalCb(w)
    \/ \E r \in Reactors : ReleaseStep(r)
    \/ \E r \in Reactors : ReleaseWake(r)

SpecContention == InitOf(ManyContinuations) /\ [][NextNoEarlyRelease]_vars
SpecOneReactor == InitOf(OneReactor) /\ [][NextNoEarlyRelease]_vars

\* ---- N continuations with LockSet {A} on one reactor ----------------------------


\* no attempt acquires a lock and then fails, so nothing is backed off
NextSingle ==
    \/ \E w \in Waiters, ls \in AllLockLists, r \in Reactors :
          Construct(w, ls, r)
    \/ \E w \in Waiters : RegisterStep(w)
    \/ \E w \in Waiters : FirstWakePost(w)
    \/ \E r \in Reactors : Dequeue(r)
    \/ \E r \in Reactors : TryAcquireStep(r)
    \/ \E r \in Reactors : AllowAwakening(r)
    \/ \E r \in Reactors : UnregisterStep(r)
    \/ \E w \in Waiters, q \in Qutexes : ReleaseQutexEarly(w, q)
    \/ \E r \in Reactors : EarlyWake(r)
    \/ \E w \in Waiters : CallOriginalCb(w)
    \/ \E r \in Reactors : ReleaseStep(r)
    \/ \E r \in Reactors : ReleaseWake(r)

\* the reactor keeps running its tasks, the constructors finish, and every
\* body eventually calls its original callback
SpecSingle == InitOf(SingleQutex) /\ [][NextSingle]_vars /\ WF_vars(NextSingle)

\* ---- one Qutex driven through its public methods -----------------------------

TheQutex == 1
\* the lockvokers that call it
ApiWaiters == 1..QueueWaiters
Call(op, w, n, before, owned, ret, e, wake) ==
    [op |-> op, w |-> w, n |-> n, before |-> before, owned |-> owned,
     ret |-> ret, err |-> e, wake |-> wake]

\* Qutex::lock after call c has returned or thrown: every exit path of
\* registerInQueue, unregisterFromQueue, tryAcquire and backoff calls
\* lock.release(); release() throws on an unowned qutex between lock.acquire()
\* and lock.release()
SpinLockHeld(c) == c.op = "release" /\ c.err

\* lock.acquire() spins while the SpinLock is held
ApiRegisterInQueue(w) ==
    /\ ~SpinLockHeld(lastCall)
    /\ w \notin Range(queue[TheQutex])
    /\ queue' = [queue EXCEPT ![TheQutex] = registerInQueue(@, w)]
    /\ lastCall' = Call("registerInQueue", w, 0, queue[TheQutex],
                        isOwned[TheQutex], TRUE, FALSE, NoWaiter)
    /\ UNCHANGED <<isOwned, configVars, isAwakeOrBeingAwakened, lockSetVars,
                   ioq, thr, cst, cidx, err, historyVars, cbPosted,
                   debugVars>>

ApiUnregisterFromQueue(w) ==
    /\ ~SpinLockHeld(lastCall)
    /\ w \in Range(queue[TheQutex])
    /\ queue' = [queue EXCEPT ![TheQutex] = unregisterFromQueue(@, w)]
    /\ lastCall' = Call("unregisterFromQueue", w, 0, queue[TheQutex],
                        isOwned[TheQutex], TRUE, FALSE, NoWaiter)
    /\ UNCHANGED <<isOwned, configVars, isAwakeOrBeingAwakened, lockSetVars,
                   ioq, thr, cst, cidx, err, historyVars, cbPosted,
                   debugVars>>

ApiTryAcquire(w, n) ==
    LET res == tryAcquire(queue[TheQutex], isOwned[TheQutex], w, n)
    IN  /\ ~SpinLockHeld(lastCall)
        /\ isOwned' = [isOwned EXCEPT ![TheQutex] = res.isOwned]
        /\ lastCall' = Call("tryAcquire", w, n, queue[TheQutex],
                            isOwned[TheQutex], res.ret, res.err, NoWaiter)
        /\ UNCHANGED <<queue, configVars, isAwakeOrBeingAwakened, lockSetVars,
                       ioq, thr, cst, cidx, err, historyVars, cbPosted,
                       debugVars>>

ApiBackoff(w, n) ==
    LET res == backoff(queue[TheQutex], isOwned[TheQutex], w, n)
    IN  /\ ~SpinLockHeld(lastCall)
        /\ queue' = [queue EXCEPT ![TheQutex] = res.queue]
        /\ isOwned' = [isOwned EXCEPT ![TheQutex] = res.isOwned]
        /\ lastCall' = Call("backoff", w, n, queue[TheQutex],
                            isOwned[TheQutex], TRUE, res.err, res.wake)
        /\ UNCHANGED <<configVars, isAwakeOrBeingAwakened, lockSetVars, ioq,
                       thr, cst, cidx, err, historyVars, cbPosted,
                       debugVars>>

ApiRelease ==
    LET res == release(queue[TheQutex], isOwned[TheQutex])
    IN  /\ ~SpinLockHeld(lastCall)
        /\ isOwned' = [isOwned EXCEPT ![TheQutex] = res.isOwned]
        /\ lastCall' = Call("release", NoWaiter, 0, queue[TheQutex],
                            isOwned[TheQutex], TRUE, res.err, res.wake)
        /\ UNCHANGED <<queue, configVars, isAwakeOrBeingAwakened, lockSetVars,
                       ioq, thr, cst, cidx, err, historyVars, cbPosted,
                       debugVars>>

NextQutex ==
    \/ \E w \in ApiWaiters : ApiRegisterInQueue(w)
    \/ \E w \in ApiWaiters : ApiUnregisterFromQueue(w)
    \/ \E w \in ApiWaiters, n \in 1..MaxRequired : ApiTryAcquire(w, n)
    \/ \E w \in ApiWaiters, n \in 1..MaxRequired : ApiBackoff(w, n)
    \/ ApiRelease

SpecQutex == Init /\ [][NextQutex]_vars

\* ---- properties -----------------------------------------------------------------

WakePcs == {"backoffWake", "releaseWake", "earlyWake"}
\* from the invocation of w's body to its release of q
InCriticalSection(w, q) ==
    bodyRuns[w] >= 1 /\ q \in Range(locks[w]) /\ relCount[w][q] = 0

\* C1: a qutex is owned exactly when one lockvoker holds it (its tryAcquire
\* returned true and it has neither released nor backed off since), and no
\* qutex is held by two lockvokers.
C1_OwnedIffHeldByOne ==
    \A q \in Qutexes :
        /\ Cardinality(heldBy[q]) <= 1
        /\ isOwned[q] <=> heldBy[q] # {}
\* a qutex that one waiter released is now held by another
C1_Witness ==
    \E q \in Qutexes, w1, w2 \in Waiters :
        w1 # w2 /\ isOwned[q] /\ heldBy[q] = {w1} /\ relCount[w2][q] = 1

\* C2: a continuation whose body has been invoked holds, from the invocation
\* on, every qutex of its LockSet that it has not released yet; so two
\* continuations are never both inside the critical section of a shared qutex.
C2_BodyHoldsLockSet ==
    /\ \A w \in Waiters, q \in Qutexes :
           InCriticalSection(w, q) => isOwned[q] /\ heldBy[q] = {w}
    /\ \A w1, w2 \in Waiters, q \in Qutexes :
           InCriticalSection(w1, q) /\ InCriticalSection(w2, q) => w1 = w2
\* a body runs with two qutexes while a contender for one of them sleeps
C2_Witness ==
    \E w, v \in Waiters :
        /\ w # v /\ cst[w] = "body" /\ LockSetSize(w) >= 2
        /\ \A q \in Range(locks[w]) : InCriticalSection(w, q)
        /\ cst[v] = "waiting" /\ ~isAwakeOrBeingAwakened[v]
        /\ Range(locks[v]) \cap Range(locks[w]) # {}

\* C3: when tryAcquireOrBackOff has returned false the waiter holds no qutex
\* of its LockSet, allLocksAcquired is false, and firstFailedQutex is the
\* qutex after the ones it had acquired, the first whose tryAcquire failed.
C3_FailedAttemptHoldsNothing ==
    \A r \in Reactors :
        At(r, "allow") =>
            LET t == thr[r] IN
            /\ \A q \in Range(locks[t.w]) : t.w \notin heldBy[q]
            /\ ~allLocksAcquired[t.w]
            /\ t.n < LockSetSize(t.w)
            /\ t.ff = locks[t.w][t.n + 1]
\* an attempt that had acquired two qutexes failed on the third
C3_Witness ==
    \E r \in Reactors : At(r, "allow") /\ thr[r].n >= 2

\* nothing is running, pending, being constructed or inside a body
Quiescent ==
    /\ \A r \in Reactors : ioq[r] = <<>> /\ At(r, "idle")
    /\ \A w \in Waiters : cst[w] \in {"unborn", "waiting", "done"}

\* C4: forward progress.  Stated on the runs that end: when the reactors have
\* nothing left to do and every body that ran has called its callback, every
\* continuation that was created has acquired its LockSet and run its body.
C4_ForwardProgress ==
    Running /\ Quiescent => \A w \in Waiters : cst[w] # "waiting"

\* C5: no stuck state: while a lockvoker is registered in a queue, a task is
\* pending or executing on some reactor, or a first wake is still to be
\* posted, or some qutex is owned by a continuation inside its body.
C5_NoStuckState ==
    (Running /\ \E w \in Waiters : InSomeQueue(w)) =>
        \/ \E r \in Reactors : ioq[r] # <<>> \/ ~At(r, "idle")
        \/ \E w \in Waiters : cst[w] \in {"registering", "posting"}
        \/ \E q \in Qutexes, w \in Waiters :
               isOwned[q] /\ w \in heldBy[q] /\ cst[w] \in {"body", "releasing"}

\* C6: the positional rule.  On a non-empty queue tryAcquire(w, S) returns
\* true and sets isOwned exactly when the qutex is free and Q = 1, or
\* Q / S < 1, or S = 1 and w is the front, or S > 1 and w is not among the
\* last Q / S entries; otherwise it returns false and changes nothing.
C6_PositionalRule ==
    (lastCall.op = "tryAcquire" /\ lastCall.before # <<>>) =>
        LET Q == Len(lastCall.before)
            S == lastCall.n
            w == lastCall.w
            lastEntries == {lastCall.before[k] : k \in (Q - (Q \div S) + 1)..Q}
            expected ==
                /\ ~lastCall.owned
                /\ \/ Q = 1
                   \/ Q \div S < 1
                   \/ S = 1 /\ lastCall.before[1] = w
                   \/ S > 1 /\ w \notin lastEntries
        IN  /\ ~lastCall.err
            /\ lastCall.ret = expected
            /\ isOwned[TheQutex] = (IF expected THEN TRUE ELSE lastCall.owned)
            /\ queue[TheQutex] = lastCall.before
\* a two-lock waiter in the rear half of a queue of four is turned away
C6_Witness ==
    /\ lastCall.op = "tryAcquire" /\ lastCall.n = 2 /\ ~lastCall.owned
    /\ Len(lastCall.before) = 4 /\ lastCall.before[3] = lastCall.w
    /\ ~lastCall.ret

\* C7: a waiter with a LockSet of size 1 at the front of the queue never gets
\* false from tryAcquire while the qutex is not owned.
C7_SingleLockFrontSucceeds ==
    ( /\ lastCall.op = "tryAcquire" /\ lastCall.n = 1
      /\ lastCall.before # <<>> /\ ~lastCall.owned
      /\ lastCall.before[1] = lastCall.w ) => lastCall.ret /\ isOwned[TheQutex]
\* the front of a queue of several waiters acquires with a LockSet of size 1
C7_Witness ==
    /\ lastCall.op = "tryAcquire" /\ lastCall.n = 1 /\ ~lastCall.owned
    /\ Len(lastCall.before) >= 3 /\ lastCall.before[1] = lastCall.w
    /\ lastCall.ret

\* C8: Qutex::release is called at most once per qutex of a LockSet, and once
\* the original callback has been called exactly once on each, whatever was
\* released early.
C8_ReleasedExactlyOnce ==
    \A w \in Waiters, q \in Qutexes :
        /\ relCount[w][q] <= 1
        /\ q \notin Range(locks[w]) => relCount[w][q] = 0
        /\ (cst[w] = "done" /\ q \in Range(locks[w])) => relCount[w][q] = 1
\* a continuation finished after releasing one of its two qutexes early
C8_Witness ==
    \E w \in Waiters, q1, q2 \in Qutexes :
        /\ cst[w] = "done" /\ {q1, q2} \subseteq Range(locks[w])
        /\ hasBeenReleased[w][q1] /\ ~hasBeenReleased[w][q2]

\* C9: between two executions of a lockvoker the awaken(false) calls post at
\* most one task for it.
C9_WakeIdempotence ==
    \A w \in Waiters : wakePosts[w] <= 1
\* a second awaken() is about to be called on a waiter already posted
C9_Witness ==
    \E r \in Reactors, w \in Waiters :
        /\ thr[r].pc \in WakePcs /\ thr[r].wk = w
        /\ wakePosts[w] = 1 /\ isAwakeOrBeingAwakened[w]

\* C10: N continuations with LockSet {A} on one reactor: no body runs twice,
\* no two of them are inside the critical section of A together, and
\* eventually all N bodies have run.
C10_SingleQutexSerialization ==
    /\ [](\A w \in Waiters : bodyRuns[w] <= 1)
    /\ [](\A w1, w2 \in Waiters :
            InCriticalSection(w1, 1) /\ InCriticalSection(w2, 1) => w1 = w2)
    /\ <>(\A w \in 1..ContentionWaiters : bodyRuns[w] = 1)
\* all N have run and called back
C10_Witness ==
    /\ \A w \in 1..ContentionWaiters : bodyRuns[w] = 1 /\ cst[w] = "done"
    /\ queue[1] = <<>>

\* ---- scenarios of two and three continuations ----------------------------------

\* C1 with LockSet {A, B} and C2 with LockSet {B, A} and nobody else
TwoByTwo ==
    /\ cst[1] # "unborn" /\ locks[1] = <<1, 2>>
    /\ cst[2] # "unborn" /\ locks[2] = <<2, 1>>
    /\ \A w \in Waiters \ {1, 2} : cst[w] = "unborn"

\* C11: symmetric 2x2 contention never stalls.  Stated on the runs that end:
\* when nothing is pending, running or being constructed, one of the two has
\* held both A and B and run its body.
C11_TwoByTwoNeverStalls ==
    (Running /\ TwoByTwo /\ Quiescent) => \E w \in {1, 2} : bodyRuns[w] >= 1

\* W1{A}, W2{A, B}, W3{A, B}, registered in that order, their first wakes not
\* posted yet: the three constructors have returned from registerInLockSet()
Positional == "positional"
PositionalLocks == <<<<1>>, <<1, 2>>, <<1, 2>>>>
PositionalWaiters == 1..Len(PositionalLocks)

InitPositional ==
    /\ queue = [q \in Qutexes |->
                   IF q = 1 THEN <<1, 2, 3>> ELSE IF q = 2 THEN <<2, 3>> ELSE <<>>]
    /\ isOwned = [q \in Qutexes |-> FALSE]
    /\ locks = [w \in Waiters |->
                   IF w \in PositionalWaiters THEN PositionalLocks[w] ELSE <<>>]
    /\ target \in [Waiters -> Reactors]
    /\ \A w \in Waiters \ PositionalWaiters : target[w] = 1
    /\ isAwakeOrBeingAwakened = [w \in Waiters |-> w \in PositionalWaiters]
    /\ allLocksAcquired = [w \in Waiters |-> FALSE]
    /\ registeredInQutexQueues = [w \in Waiters |-> w \in PositionalWaiters]
    /\ hasBeenReleased = [w \in Waiters |-> [q \in Qutexes |-> FALSE]]
    /\ ioq = [r \in Reactors |-> <<>>]
    /\ thr = [r \in Reactors |-> Idle]
    /\ cst = [w \in Waiters |->
                 IF w \in PositionalWaiters THEN "posting" ELSE "unborn"]
    /\ cidx = [w \in Waiters |->
                  IF w \in PositionalWaiters THEN Len(PositionalLocks[w]) + 1
                  ELSE 0]
    /\ err = "none"
    /\ heldBy = [q \in Qutexes |-> {}]
    /\ relCount = [w \in Waiters |-> [q \in Qutexes |-> 0]]
    /\ bodyRuns = [w \in Waiters |-> 0]
    /\ failed = [w \in Waiters |-> FALSE]
    /\ wakePosts = [w \in Waiters |-> 0]
    /\ cbPosted = [w \in Waiters |-> FALSE]
    /\ lastCall = [op |-> "none"]
    /\ scenario = Positional
    /\ callerContinuation = [w \in Waiters |-> NoWaiter]
    /\ cbFnT = [w \in Waiters |-> 1]
    /\ timedOut = [w \in Waiters |-> FALSE]
    /\ acquisitionHistory = [w \in Waiters |-> NoEntry]
    /\ deadlocks = {}
    /\ gridlocks = {}
    /\ cycles = {}
    /\ caller = [w \in Waiters |-> 1]
    /\ wokenBy = [w \in Waiters |-> {}]

\* nothing is constructed any more and the bodies release at their callback;
\* a backoff here is by W3 alone in the queue of A and wakes nobody
NextPositional ==
    \/ \E w \in Waiters : FirstWakePost(w)
    \/ \E r \in Reactors : Dequeue(r)
    \/ \E r \in Reactors : TryAcquireStep(r)
    \/ \E r \in Reactors : BackoffStep(r)
    \/ \E r \in Reactors : AllowAwakening(r)
    \/ \E r \in Reactors : UnregisterStep(r)
    \/ \E w \in Waiters : CallOriginalCb(w)
    \/ \E r \in Reactors : ReleaseStep(r)
    \/ \E r \in Reactors : ReleaseWake(r)

SpecPositional == InitPositional /\ [][NextPositional]_vars

\* w has acquired q, and may have released it since
HasAcquired(w, q) == w \in heldBy[q] \/ relCount[w][q] >= 1

\* C12 as stated: W2 acquires A and B on its first execution, W3's attempt
\* fails on A, and W1 holds A only after W2 has released it.
C12_PositionalScenario ==
    /\ ~failed[2]
    /\ \A r \in Reactors :
           (At(r, "allow") /\ thr[r].w = 3) => thr[r].ff = 1
    /\ 1 \in heldBy[1] => relCount[2][1] = 1

\* C12 amended: whichever of W1 and W2 tries A first acquires it.  An attempt
\* of W2 fails only on A and only after W1 has acquired A; W1 does not hold A
\* together with W2, nor after W2's body began unless W2 has released A; and
\* W3 gets past A only when W1 and W2 have left the queue of A.
C12_PositionalScenarioAmended ==
    /\ \A r \in Reactors :
           (thr[r].w = 2 /\ thr[r].pc \in {"backoff", "backoffWake", "allow"})
               => thr[r].ff = 1 /\ thr[r].n = 0 /\ HasAcquired(1, 1)
    /\ failed[2] => HasAcquired(1, 1)
    /\ 1 \in heldBy[1] =>
           2 \notin heldBy[1] /\ (bodyRuns[2] >= 1 => relCount[2][1] = 1)
    /\ 3 \in heldBy[1] => Range(queue[1]) \cap {1, 2} = {}
\* W2 is in its body after its first execution; W1 and W3 have tried and failed
C12_Witness ==
    /\ cst[2] = "body" /\ ~failed[2] /\ failed[1] /\ failed[3]
    /\ heldBy[1] = {2} /\ heldBy[2] = {2}

\* ---- debug build: deadlock and gridlock detection ------------------------------

NumCbTypes == 2
CbTypes == 1..NumCbTypes

RECURSIVE SortedSeq(_)
SortedSeq(S) ==
    IF S = {} THEN <<>>
    ELSE LET m == CHOOSE x \in S : \A y \in S : x <= y
         IN  <<m>> \o SortedSeq(S \ {m})

\* the caller chain from continuation p upwards (getCallersContinuationShPtr)
RECURSIVE Chain(_)
Chain(p) ==
    IF p = NoWaiter THEN {} ELSE {p} \cup Chain(callerContinuation[p])

\* the links of the chain on which the dynamic_pointer_cast to
\* SerializedAsynchronousContinuation<OriginalCbFnT> succeeds
SerializedCallers(p, ty) == {a \in Chain(p) : cbFnT[a] = ty}

\* LockerAndInvoker::traceContinuationHistoryForDeadlockOn, for a continuation
\* of type ty called from p
traceContinuationHistoryForDeadlockOn(p, ty, q) ==
    \E a \in SerializedCallers(p, ty) : q \in Range(locks[a])

\* LockerAndInvoker::traceContinuationHistoryForDeadlock: the first qutex of
\* the LockSet found in the caller chain, NoQutex if there is none
traceContinuationHistoryForDeadlock(p, ty, ls) ==
    LET dup == {i \in 1..Len(ls) :
                    traceContinuationHistoryForDeadlockOn(p, ty, ls[i])}
    IN  IF dup = {} THEN NoQutex
        ELSE ls[CHOOSE i \in dup : \A j \in dup : i <= j]

\* SerializedAsynchronousContinuation::getAcquiredQutexHistory
getAcquiredQutexHistory(w) ==
    UNION {Range(locks[a]) :
               a \in SerializedCallers(callerContinuation[w], cbFnT[w])}

Tracked(h) == {c \in Waiters : h[c] # NoEntry}

\* QutexAcquisitionHistoryTracker::addIfNotExists
addIfNotExists(h, c, wanted, held) ==
    IF c \in Tracked(h) THEN h
    ELSE [h EXCEPT ![c] = [wanted |-> wanted, held |-> held]]

\* (variant: the entry is left in the map)
removeKeepsEntry(h, c) == h

\* QutexAcquisitionHistoryTracker::remove
remove(h, c) == [h EXCEPT ![c] = NoEntry]

\* (variant: the entry of the current continuation is compared as well)
heuristicScanIncludesSelf(h, entries, q, c) ==
    \E k \in 1..Len(entries) : q \in h[entries[k]].held

\* the loop of heuristicallyTraceContinuationHistoryForGridlockOn over the
\* entries of the map: the current continuation is skipped, the held list of
\* every other entry is searched for firstFailedQutex
RECURSIVE heuristicScan(_, _, _, _)
heuristicScan(h, entries, q, c) ==
    IF entries = <<>> THEN FALSE
    ELSE LET continuation == Head(entries)
         IN  IF continuation = c THEN heuristicScan(h, Tail(entries), q, c)
             ELSE IF q \in h[continuation].held THEN TRUE
             ELSE heuristicScan(h, Tail(entries), q, c)

\* QutexAcquisitionHistoryTracker::
\* heuristicallyTraceContinuationHistoryForGridlockOn; the map is unordered,
\* it is walked here in ascending order
heuristicallyTraceContinuationHistoryForGridlockOn(h, q, c) ==
    heuristicScan(h, SortedSeq(Tracked(h)), q, c)

\* QutexAcquisitionHistoryTracker::generateGraph: the edges c -> o
generateGraph(h) ==
    {e \in Tracked(h) \X Tracked(h) :
         e[1] # e[2] /\ h[e[1]].wanted \in h[e[2]].held}

\* DependencyGraph::dfsCycleDetection; st = [visited, path, cycles], the
\* recursion stack is the set of nodes on the path. The adjacency containers
\* are unordered; they are walked here in ascending order.
RECURSIVE dfsCycleDetection(_, _, _)
RECURSIVE dfsAdjacent(_, _, _)
dfsCycleDetection(E, node, st) ==
    LET st1 == [st EXCEPT !.visited = @ \cup {node}, !.path = Append(@, node)]
        adj == SortedSeq({e[2] : e \in {d \in E : d[1] = node}})
        st2 == dfsAdjacent(E, adj, st1)
    IN  [st2 EXCEPT !.path = SubSeq(@, 1, Len(@) - 1)]
dfsAdjacent(E, adj, st) ==
    IF adj = <<>> THEN st
    ELSE LET a == Head(adj)
             st1 == IF a \in Range(st.path)
                    THEN [st EXCEPT !.cycles = @ \cup
                             {Append(SubSeq(st.path, IndexOf(st.path, a),
                                            Len(st.path)), a)}]
                    ELSE IF a \notin st.visited
                    THEN dfsCycleDetection(E, a, st)
                    ELSE st
         IN  dfsAdjacent(E, Tail(adj), st1)

\* (variant: the DFS starts from the first node of the map only)
findCyclesFromFirstOnly(E, todo, st) ==
    IF todo = <<>> THEN st.cycles
    ELSE dfsCycleDetection(E, Head(todo), st).cycles

\* DependencyGraph::findCycles over the nodes in the sequence todo
RECURSIVE findCyclesFrom(_, _, _)
findCyclesFrom(E, todo, st) ==
    IF todo = <<>> THEN st.cycles
    ELSE findCyclesFrom(E, Tail(todo),
             IF Head(todo) \in st.visited THEN st
             ELSE dfsCycleDetection(E, Head(todo), st))
findCycles(E, nodes) ==
    findCyclesFrom(E, SortedSeq(nodes),
                   [visited |-> {}, path |-> <<>>, cycles |-> {}])

\* DependencyGraph::hasCycles over the nodes in the sequence todo: it returns
\* as soon as the DFS from one node has recorded a cycle
RECURSIVE hasCyclesFrom(_, _, _)
hasCyclesFrom(E, todo, st) ==
    IF todo = <<>> THEN FALSE
    ELSE IF Head(todo) \in st.visited THEN hasCyclesFrom(E, Tail(todo), st)
    ELSE LET st1 == dfsCycleDetection(E, Head(todo), st)
         IN  IF st1.cycles # {} THEN TRUE
             ELSE hasCyclesFrom(E, Tail(todo), st1)
hasCycles(E, nodes) ==
    hasCyclesFrom(E, SortedSeq(nodes),
                  [visited |-> {}, path |-> <<>>, cycles |-> {}])

\* the constructors run inside the body of continuation p, which becomes the
\* caller; in a debug build the LockerAndInvoker constructor first looks for
\* one of its qutexes in the caller chain and throws if it finds one
ConstructNested(w, p, ty, ls, r) ==
    /\ Running
    /\ cst[w] = "unborn"
    /\ IF w = 1 THEN TRUE ELSE cst[w - 1] # "unborn"
    /\ w <= ScenarioN[scenario]
    /\ ls \in ScenarioLists[scenario]
    /\ r \in ScenarioReactors[scenario]
    /\ cst[p] = "body"
    /\ At(target[p], "idle")
    /\ locks' = [locks EXCEPT ![w] = ls]
    /\ target' = [target EXCEPT ![w] = r]
    /\ callerContinuation' = [callerContinuation EXCEPT ![w] = p]
    /\ cbFnT' = [cbFnT EXCEPT ![w] = ty]
    /\ LET dup == IF DebugLocks
                  THEN traceContinuationHistoryForDeadlock(p, ty, ls)
                  ELSE NoQutex
       IN  IF dup # NoQutex
           THEN /\ deadlocks' = deadlocks \cup {<<w, dup>>}
                /\ cst' = [cst EXCEPT ![w] = "refused"]
                /\ UNCHANGED <<isAwakeOrBeingAwakened, cidx>>
           ELSE /\ isAwakeOrBeingAwakened' =
                       [isAwakeOrBeingAwakened EXCEPT ![w] = TRUE]
                /\ cst' = [cst EXCEPT ![w] = "registering"]
                /\ cidx' = [cidx EXCEPT ![w] = 1]
                /\ UNCHANGED deadlocks
    /\ UNCHANGED <<qutexVars, lockSetVars, ioq, thr, err, historyVars,
                   cbPosted, lastCall, scenario, caller, timedOut,
                   acquisitionHistory, gridlocks, cycles>>

\* CONFIG_DEBUG_QUTEX_DEADLOCK_TIMEOUT_MS elapses since the creation of w's
\* lockvoker; the timeout is the same for all, so it elapses in creation order
TimeoutElapses(w) ==
    /\ Running
    /\ DebugLocks
    /\ cst[w] \notin {"unborn", "refused"}
    /\ ~timedOut[w]
    /\ \A v \in 1..(w - 1) : cst[v] = "refused" \/ timedOut[v]
    /\ timedOut' = [timedOut EXCEPT ![w] = TRUE]
    /\ UNCHANGED <<qutexVars, configVars, isAwakeOrBeingAwakened, lockSetVars,
                   ioq, thr, cst, cidx, err, historyVars, cbPosted, lastCall,
                   acquisitionHistory, deadlocks, gridlocks, cycles>>

\* operator(), failed attempt of a lockvoker that has timed out:
\* getAcquiredQutexHistory and tracker.addIfNotExists
TrackerAdd(r) ==
    /\ Running
    /\ At(r, "track")
    /\ LET w == thr[r].w
       IN  acquisitionHistory' =
               addIfNotExists(acquisitionHistory, w, thr[r].ff,
                              getAcquiredQutexHistory(w))
    /\ thr' = [thr EXCEPT ![r].pc = "heuristic"]
    /\ UNCHANGED <<qutexVars, configVars, isAwakeOrBeingAwakened, lockSetVars,
                   ioq, cst, cidx, err, historyVars, cbPosted, lastCall,
                   timedOut, deadlocks, gridlocks, cycles>>

\* what operator() reports at the end of a failed attempt
reportDeadlock(w, q) ==
    IF traceContinuationHistoryForDeadlockOn(callerContinuation[w], cbFnT[w], q)
    THEN deadlocks \cup {<<w, q>>}
    ELSE deadlocks

\* (variant: the complete stage runs whatever the heuristic stage found)
HeuristicTraceAlwaysCompletes(r) ==
    /\ Running
    /\ At(r, "heuristic")
    /\ thr' = [thr EXCEPT ![r].pc = "complete"]
    /\ UNCHANGED <<qutexVars, configVars, isAwakeOrBeingAwakened, lockSetVars,
                   ioq, cst, cidx, err, historyVars, cbPosted, lastCall,
                   debugVars>>

\* the heuristic stage; without a hit the attempt ends here
HeuristicTrace(r) ==
    /\ Running
    /\ At(r, "heuristic")
    /\ LET w == thr[r].w
           q == thr[r].ff
       IN  IF heuristicallyTraceContinuationHistoryForGridlockOn(
                  acquisitionHistory, q, w)
           THEN /\ thr' = [thr EXCEPT ![r].pc = "complete"]
                /\ UNCHANGED deadlocks
           ELSE /\ thr' = [thr EXCEPT ![r] = Idle]
                /\ deadlocks' = reportDeadlock(w, q)
    /\ UNCHANGED <<qutexVars, configVars, isAwakeOrBeingAwakened, lockSetVars,
                   ioq, cst, cidx, err, historyVars, cbPosted, lastCall,
                   timedOut, acquisitionHistory, gridlocks, cycles>>

\* the complete stage (completelyTraceContinuationHistoryForGridlockOn), then
\* handleDeadlock and handleGridlock
CompleteTrace(r) ==
    /\ Running
    /\ At(r, "complete")
    /\ LET w == thr[r].w
           q == thr[r].ff
           graph == generateGraph(acquisitionHistory)
           nodes == Tracked(acquisitionHistory)
       IN  /\ cycles' = IF hasCycles(graph, nodes)
                        THEN cycles \cup findCycles(graph, nodes)
                        ELSE cycles
           /\ gridlocks' = gridlocks \cup {<<w, q>>}
           /\ deadlocks' = reportDeadlock(w, q)
    /\ thr' = [thr EXCEPT ![r] = Idle]
    /\ UNCHANGED <<qutexVars, configVars, isAwakeOrBeingAwakened, lockSetVars,
                   ioq, cst, cidx, err, historyVars, cbPosted, lastCall,
                   timedOut, acquisitionHistory>>

\* operator(), successful attempt of a lockvoker that has timed out:
\* tracker.remove, then the continuation body is invoked
TrackerRemove(r) ==
    /\ Running
    /\ At(r, "untrack")
    /\ LET w == thr[r].w
       IN  /\ acquisitionHistory' = remove(acquisitionHistory, w)
           /\ bodyRuns' = [bodyRuns EXCEPT ![w] = @ + 1]
           /\ cst' = [cst EXCEPT ![w] = "body"]
    /\ thr' = [thr EXCEPT ![r] = Idle]
    /\ UNCHANGED <<qutexVars, configVars, isAwakeOrBeingAwakened, lockSetVars,
                   ioq, cidx, err, heldBy, relCount, failed, wakePosts, wokenBy,
                   cbPosted, lastCall, timedOut, deadlocks, gridlocks, cycles>>

\* Two continuations without callers are in their bodies: continuation 1 holds
\* qutex 1 and continuation 2 holds qutex 2. The others are still to be created.
DebugHolders == {1, 2}
InitDebug ==
    /\ queue = [q \in Qutexes |-> <<>>]
    /\ isOwned = [q \in Qutexes |-> q \in DebugHolders]
    /\ locks = [w \in Waiters |-> IF w \in DebugHolders THEN <<w>> ELSE <<>>]
    /\ target = [w \in Waiters |-> 1]
    /\ isAwakeOrBeingAwakened = [w \in Waiters |-> w \in DebugHolders]
    /\ allLocksAcquired = [w \in Waiters |-> w \in DebugHolders]
    /\ registeredInQutexQueues = [w \in Waiters |-> w \in DebugHolders]
    /\ hasBeenReleased = [w \in Waiters |-> [q \in Qutexes |-> FALSE]]
    /\ ioq = [r \in Reactors |-> <<>>]
    /\ thr = [r \in Reactors |-> Idle]
    /\ cst = [w \in Waiters |-> IF w \in DebugHolders THEN "body" ELSE "unborn"]
    /\ cidx = [w \in Waiters |-> IF w \in DebugHolders THEN 2 ELSE 0]
    /\ err = "none"
    /\ heldBy = [q \in Qutexes |-> IF q \in DebugHolders THEN {q} ELSE {}]
    /\ relCount = [w \in Waiters |-> [q \in Qutexes |-> 0]]
    /\ bodyRuns = [w \in Waiters |-> IF w \in DebugHolders THEN 1 ELSE 0]
    /\ failed = [w \in Waiters |-> FALSE]
    /\ wakePosts = [w \in Waiters |-> 0]
    /\ cbPosted = [w \in Waiters |-> FALSE]
    /\ lastCall = [op |-> "none"]
    /\ scenario = DebugBuild
    /\ callerContinuation = [w \in Waiters |-> NoWaiter]
    /\ cbFnT = [w \in Waiters |-> 1]
    /\ timedOut = [w \in Waiters |-> w \in DebugHolders]
    /\ acquisitionHistory = [w \in Waiters |-> NoEntry]
    /\ deadlocks = {}
    /\ gridlocks = {}
    /\ cycles = {}
    /\ caller = [w \in Waiters |-> 1]
    /\ wokenBy = [w \in Waiters |-> {}]

\* LockSets of one qutex never back off
NextDebug ==
    \/ \E w \in Waiters, ls \in MainLockLists, r \in Reactors :
           Construct(w, ls, r)
    \/ \E w, p \in Waiters, ty \in CbTypes, ls \in MainLockLists, r \in Reactors :
           ConstructNested(w, p, ty, ls, r)
    \/ \E w \in Waiters : TimeoutElapses(w)
    \/ \E w \in Waiters : RegisterStep(w)
    \/ \E w \in Waiters : FirstWakePost(w)
    \/ \E r \in Reactors : Dequeue(r)
    \/ \E r \in Reactors : TryAcquireStep(r)
    \/ \E r \in Reactors : AllowAwakening(r)
    \/ \E r \in Reactors : TrackerAdd(r)
    \/ \E r \in Reactors : HeuristicTrace(r)
    \/ \E r \in Reactors : CompleteTrace(r)
    \/ \E r \in Reactors : UnregisterStep(r)
    \/ \E r \in Reactors : TrackerRemove(r)
    \/ \E w \in Waiters : CallOriginalCb(w)
    \/ \E r \in Reactors : ReleaseStep(r)
    \/ \E r \in Reactors : ReleaseWake(r)

SpecDebug == InitDebug /\ [][NextDebug]_vars

\* ---- the debug build with LockSets that back off -------------------------------

\* as InitDebug: continuation 1 holds qutex 1 and continuation 2 holds qutex 2
InitDebugWide ==
    /\ queue = [q \in Qutexes |-> <<>>]
    /\ isOwned = [q \in Qutexes |-> q \in DebugHolders]
    /\ locks = [w \in Waiters |-> IF w \in DebugHolders THEN <<w>> ELSE <<>>]
    /\ target = [w \in Waiters |-> 1]
    /\ isAwakeOrBeingAwakened = [w \in Waiters |-> w \in DebugHolders]
    /\ allLocksAcquired = [w \in Waiters |-> w \in DebugHolders]
    /\ registeredInQutexQueues = [w \in Waiters |-> w \in DebugHolders]
    /\ hasBeenReleased = [w \in Waiters |-> [q \in Qutexes |-> FALSE]]
    /\ ioq = [r \in Reactors |-> <<>>]
    /\ thr = [r \in Reactors |-> Idle]
    /\ cst = [w \in Waiters |-> IF w \in DebugHolders THEN "body" ELSE "unborn"]
    /\ cidx = [w \in Waiters |-> IF w \in DebugHolders THEN 2 ELSE 0]
    /\ err = "none"
    /\ heldBy = [q \in Qutexes |-> IF q \in DebugHolders THEN {q} ELSE {}]
    /\ relCount = [w \in Waiters |-> [q \in Qutexes |-> 0]]
    /\ bodyRuns = [w \in Waiters |-> IF w \in DebugHolders THEN 1 ELSE 0]
    /\ failed = [w \in Waiters |-> FALSE]
    /\ wakePosts = [w \in Waiters |-> 0]
    /\ cbPosted = [w \in Waiters |-> FALSE]
    /\ lastCall = [op |-> "none"]
    /\ scenario = DebugWide
    /\ callerContinuation = [w \in Waiters |-> NoWaiter]
    /\ cbFnT = [w \in Waiters |-> 1]
    /\ timedOut = [w \in Waiters |-> w \in DebugHolders]
    /\ acquisitionHistory = [w \in Waiters |-> NoEntry]
    /\ deadlocks = {}
    /\ gridlocks = {}
    /\ cycles = {}
    /\ caller = [w \in Waiters |-> 1]
    /\ wokenBy = [w \in Waiters |-> {}]

NextDebugWide ==
    \/ \E w \in Waiters, ls \in MainLockLists, r \in Reactors :
           Construct(w, ls, r)
    \/ \E w, p \in Waiters, ty \in CbTypes, ls \in MainLockLists, r \in Reactors :
           ConstructNested(w, p, ty, ls, r)
    \/ \E w \in Waiters : TimeoutElapses(w)
    \/ \E w \in Waiters : RegisterStep(w)
    \/ \E w \in Waiters : FirstWakePost(w)
    \/ \E r \in Reactors : Dequeue(r)
    \/ \E r \in Reactors : TryAcquireStep(r)
    \/ \E r \in Reactors : BackoffStep(r)
    \/ \E r \in Reactors : BackoffWake(r)
    \/ \E r \in Reactors : AllowAwakening(r)
    \/ \E r \in Reactors : TrackerAdd(r)
    \/ \E r \in Reactors : HeuristicTrace(r)
    \/ \E r \in Reactors : CompleteTrace(r)
    \/ \E r \in Reactors : UnregisterStep(r)
    \/ \E r \in Reactors : TrackerRemove(r)
    \/ \E w \in Waiters : CallOriginalCb(w)
    \/ \E r \in Reactors : ReleaseStep(r)
    \/ \E r \in Reactors : ReleaseWake(r)

SpecDebugWide == InitDebugWide /\ [][NextDebugWide]_vars

\* ---- properties of the debug build ----------------------------------------------

\* C1 holds A and its child wants B while C2 holds B and its child wants A;
\* every continuation is built with the same OriginalCbFnT
TrueGridlock ==
    /\ cst[1] = "body" /\ cst[2] = "body"
    /\ cst[3] = "waiting" /\ callerContinuation[3] = 1 /\ locks[3] = <<2>>
    /\ cst[4] = "waiting" /\ callerContinuation[4] = 2 /\ locks[4] = <<1>>
    /\ \A w \in Waiters : cbFnT[w] = 1

NothingPending == \A r \in Reactors : ioq[r] = <<>> /\ At(r, "idle")

\* C13: in a true gridlock, once the timeout has elapsed for both children and
\* nothing is left to execute, both children are recorded in the history
\* tracker, the heuristic stage has reported a gridlock and the complete stage
\* has found the 2-cycle between the two children.
C13_TrueGridlockDetected ==
    (Running /\ TrueGridlock /\ timedOut[3] /\ timedOut[4] /\ NothingPending)
        => /\ {3, 4} \subseteq Tracked(acquisitionHistory)
           /\ gridlocks # {}
           /\ \E c \in cycles : Range(c) = {3, 4}

\* C2 (continuation 3, without a caller) wants A, which C1 (continuation 1)
\* holds; C1 waits for nothing, and nobody else is created
FalsePositive ==
    /\ cst[3] # "unborn" /\ callerContinuation[3] = NoWaiter /\ locks[3] = <<1>>
    /\ cst[4] = "unborn"

\* C14: while C2 waits for A held by a C1 that waits for nothing, the complete
\* stage never finds a cycle; once C2 has acquired A it is not in the history
\* tracker; and when C1 has released A and nothing is left to execute, C2 is
\* not still waiting for A.
C14_FalsePositiveRetraction ==
    (Running /\ FalsePositive)
        => /\ cycles = {}
           /\ bodyRuns[3] >= 1 => 3 \notin Tracked(acquisitionHistory)
           /\ (NothingPending /\ relCount[1][1] = 1) => cst[3] # "waiting"

\* w's LockSet shares a qutex with the LockSet of a continuation in w's caller
\* chain
SharesWithAncestor(w) ==
    \E a \in Chain(callerContinuation[w]) :
        Range(locks[a]) \cap Range(locks[w]) # {}

\* C15: in a debug build the constructor of a continuation whose LockSet
\* shares a qutex with any ancestor in its caller chain throws (handleDeadlock
\* was called), and the continuation is in no qutex queue and was not posted.
C15_SameChainDeadlock ==
    \A w \in Waiters :
        (cst[w] # "unborn" /\ SharesWithAncestor(w))
            => /\ cst[w] = "refused"
               /\ \E q \in Range(locks[w]) : <<w, q>> \in deadlocks
               /\ ~InSomeQueue(w)
               /\ \A r \in Reactors : w \notin Range(ioq[r])


\* ---- the LockSet driven through its API by one thread ---------------------------

LockSetApi == "lockSetApi"
NumLockSets == 2
LockSets == 1..NumLockSets

\* the LockSets are constructed and nothing more: the first over any list of
\* the main qutexes, the others over any list of all the qutexes
InitLockSet ==
    /\ queue = [q \in Qutexes |-> <<>>]
    /\ isOwned = [q \in Qutexes |-> FALSE]
    /\ \E first \in MainLockLists, ls \in [LockSets -> AllLockLists] :
           locks = [w \in Waiters |-> IF w = 1 THEN first
                                       ELSE IF w \in LockSets THEN ls[w]
                                       ELSE <<>>]
    /\ target = [w \in Waiters |-> 1]
    /\ isAwakeOrBeingAwakened = [w \in Waiters |-> FALSE]
    /\ allLocksAcquired = [w \in Waiters |-> FALSE]
    /\ registeredInQutexQueues = [w \in Waiters |-> FALSE]
    /\ hasBeenReleased = [w \in Waiters |-> [q \in Qutexes |-> FALSE]]
    /\ ioq = [r \in Reactors |-> <<>>]
    /\ thr = [r \in Reactors |-> Idle]
    /\ cst = [w \in Waiters |-> "unborn"]
    /\ cidx = [w \in Waiters |-> 0]
    /\ err = "none"
    /\ heldBy = [q \in Qutexes |-> {}]
    /\ relCount = [w \in Waiters |-> [q \in Qutexes |-> 0]]
    /\ bodyRuns = [w \in Waiters |-> 0]
    /\ failed = [w \in Waiters |-> FALSE]
    /\ wakePosts = [w \in Waiters |-> 0]
    /\ cbPosted = [w \in Waiters |-> FALSE]
    /\ lastCall = [op |-> "none"]
    /\ scenario = LockSetApi
    /\ callerContinuation = [w \in Waiters |-> NoWaiter]
    /\ cbFnT = [w \in Waiters |-> 1]
    /\ timedOut = [w \in Waiters |-> FALSE]
    /\ acquisitionHistory = [w \in Waiters |-> NoEntry]
    /\ deadlocks = {}
    /\ gridlocks = {}
    /\ cycles = {}
    /\ caller = [w \in Waiters |-> 1]
    /\ wokenBy = [w \in Waiters |-> {}]

\* the qutexes as a LockSet function sees and leaves them: calls counts the
\* Qutex operations called, wakes lists the lockvokers awaken() was called on,
\* acquired the qutexes tryAcquire() succeeded on and backedOff the qutexes
\* backoff() was called on, each in the order of the calls
QutexState ==
    [queue |-> queue, isOwned |-> isOwned, calls |-> 0, err |-> FALSE,
     wakes |-> <<>>, acquired |-> <<>>, backedOff |-> <<>>]

\* the acquisition loop of LockSet::tryAcquireOrBackOff from locks[i] on
RECURSIVE acquireLoop(_, _, _)
acquireLoop(w, i, st) ==
    IF i > LockSetSize(w) THEN [st |-> st, nAcquired |-> i - 1]
    ELSE LET q == locks[w][i]
             res == tryAcquire(st.queue[q], st.isOwned[q], w, LockSetSize(w))
             st1 == [st EXCEPT !.isOwned[q] = res.isOwned, !.calls = @ + 1,
                               !.err = res.err]
         IN  IF res.err \/ ~res.ret THEN [st |-> st1, nAcquired |-> i - 1]
             ELSE acquireLoop(w, i + 1,
                              [st1 EXCEPT !.acquired = Append(@, q)])

\* the backoff loop of LockSet::tryAcquireOrBackOff from locks[i] on
RECURSIVE backoffLoop(_, _, _, _)
backoffLoop(w, i, nAcquired, st) ==
    IF i > nAcquired \/ st.err THEN st
    ELSE LET q == locks[w][i]
             res == backoff(st.queue[q], st.isOwned[q], w, LockSetSize(w))
             st1 == [st EXCEPT !.queue[q] = res.queue,
                               !.isOwned[q] = res.isOwned, !.calls = @ + 1,
                               !.err = res.err,
                               !.wakes = IF res.wake # NoWaiter /\ ~res.err
                                         THEN Append(@, res.wake) ELSE @,
                               !.backedOff = Append(@, q)]
         IN  backoffLoop(w, i + 1, nAcquired, st1)

\* (variant: a LockSet that was never registered is tried all the same)
tryAcquireOrBackOffUnchecked(w) ==
    LET a == acquireLoop(w, 1, QutexState)
    IN  [st |-> a.st, ret |-> FALSE, acquired |-> allLocksAcquired[w]]

\* LockSet::tryAcquireOrBackOff
tryAcquireOrBackOff(w) ==
    IF ~registeredInQutexQueues[w] \/ allLocksAcquired[w]
    THEN [st |-> [QutexState EXCEPT !.err = TRUE], ret |-> FALSE,
          acquired |-> allLocksAcquired[w]]
    ELSE LET a == acquireLoop(w, 1, QutexState)
         IN  IF a.st.err
             THEN [st |-> a.st, ret |-> FALSE, acquired |-> FALSE]
             ELSE IF a.nAcquired < LockSetSize(w)
             THEN [st |-> backoffLoop(w, 1, a.nAcquired, a.st), ret |-> FALSE,
                   acquired |-> FALSE]
             ELSE [st |-> a.st, ret |-> TRUE, acquired |-> TRUE]

\* the loop of LockSet::release from locks[i] on
RECURSIVE releaseLoop(_, _, _)
releaseLoop(w, i, st) ==
    IF i > LockSetSize(w) \/ st.err THEN st
    ELSE LET q == locks[w][i]
             res == release(st.queue[q], st.isOwned[q])
             st1 == [st EXCEPT !.isOwned[q] = res.isOwned, !.calls = @ + 1,
                               !.err = res.err,
                               !.wakes = IF res.wake # NoWaiter
                                         THEN Append(@, res.wake) ELSE @]
         IN  releaseLoop(w, i + 1,
                         IF hasBeenReleased[w][q] THEN st ELSE st1)

\* LockSet::release
lockSetRelease(w) ==
    IF ~registeredInQutexQueues[w] \/ ~allLocksAcquired[w]
    THEN [st |-> [QutexState EXCEPT !.err = TRUE],
          acquired |-> allLocksAcquired[w]]
    ELSE LET st == releaseLoop(w, 1, QutexState)
         IN  [st |-> st,
              acquired |-> IF st.err THEN allLocksAcquired[w] ELSE FALSE]

\* LockSet::releaseQutexEarly
lockSetReleaseQutexEarly(w, q) ==
    IF ~allLocksAcquired[w] \/ q \notin Range(locks[w])
    THEN [st |-> [QutexState EXCEPT !.err = TRUE], released |-> FALSE]
    ELSE IF hasBeenReleased[w][q]
    THEN [st |-> QutexState, released |-> TRUE]
    ELSE LET res == release(queue[q], isOwned[q])
         IN  [st |-> [QutexState EXCEPT
                         !.isOwned[q] = res.isOwned, !.calls = 1,
                         !.err = res.err,
                         !.wakes = IF res.wake # NoWaiter
                                   THEN <<res.wake>> ELSE <<>>],
              released |-> ~res.err]

\* the loop of LockSet::unregisterFromQutexQueues from locks[i] on
RECURSIVE unregisterLoop(_, _, _)
unregisterLoop(w, i, st) ==
    IF i > LockSetSize(w) THEN st
    ELSE unregisterLoop(w, i + 1,
             [st EXCEPT !.queue[locks[w][i]] = unregisterFromQueue(@, w),
                        !.calls = @ + 1])

\* LockSet::unregisterFromQutexQueues
lockSetUnregister(w) ==
    IF ~registeredInQutexQueues[w] THEN [QutexState EXCEPT !.err = TRUE]
    ELSE unregisterLoop(w, 1, QutexState)

\* awaken() on each lockvoker of the sequence wakes, in order
RECURSIVE awakenAll(_, _, _)
awakenAll(wakes, flag, posted) ==
    IF wakes = <<>> THEN [flag |-> flag, ioq |-> posted]
    ELSE LET v == Head(wakes)
         IN  awakenAll(Tail(wakes), [flag EXCEPT ![v] = TRUE],
                       IF awakenPosts(flag[v], FALSE)
                       THEN [posted EXCEPT ![target[v]] = Append(@, v)]
                       ELSE posted)

LockSetCall(op, w, st) ==
    [op |-> op, w |-> w, err |-> st.err, calls |-> st.calls,
     acquiredQutexes |-> st.acquired, backedOff |-> st.backedOff,
     registered |-> registeredInQutexQueues[w],
     acquired |-> allLocksAcquired[w],
     queue |-> queue, isOwned |-> isOwned]

\* what a LockSet function leaves behind in the qutexes and lockvokers
Leaves(st) ==
    /\ queue' = st.queue
    /\ isOwned' = st.isOwned
    /\ LET a == awakenAll(st.wakes, isAwakeOrBeingAwakened, ioq)
       IN  isAwakeOrBeingAwakened' = a.flag /\ ioq' = a.ioq

ApiRegisterInQutexQueues(w) ==
    /\ ~registeredInQutexQueues[w]
    /\ queue' = [q \in Qutexes |->
                    IF q \in Range(locks[w]) THEN registerInQueue(queue[q], w)
                    ELSE queue[q]]
    /\ registeredInQutexQueues' = [registeredInQutexQueues EXCEPT ![w] = TRUE]
    /\ lastCall' = LockSetCall("registerInQutexQueues", w,
                               [QutexState EXCEPT !.calls = LockSetSize(w)])
    /\ UNCHANGED <<isOwned, configVars, isAwakeOrBeingAwakened,
                   allLocksAcquired, hasBeenReleased, ioq, thr, cst, cidx,
                   err, historyVars, cbPosted, debugVars>>

ApiTryAcquireOrBackOff(w) ==
    LET res == tryAcquireOrBackOff(w)
    IN  /\ Leaves(res.st)
        /\ allLocksAcquired' = [allLocksAcquired EXCEPT ![w] = res.acquired]
        /\ lastCall' = LockSetCall("tryAcquireOrBackOff", w, res.st)
        /\ UNCHANGED <<configVars, registeredInQutexQueues, hasBeenReleased,
                       thr, cst, cidx, err, historyVars, cbPosted, debugVars>>

\* erasing through the stored iterators a second time is undefined: the
\* function is called on a LockSet that was never registered, or on one that
\* is in the queues of all its qutexes
ApiUnregisterFromQutexQueues(w) ==
    /\ IF registeredInQutexQueues[w]
       THEN \A q \in Range(locks[w]) : w \in Range(queue[q])
       ELSE TRUE
    /\ LET st == lockSetUnregister(w)
       IN  /\ Leaves(st)
           /\ lastCall' = LockSetCall("unregisterFromQutexQueues", w, st)
    /\ UNCHANGED <<configVars, lockSetVars, thr, cst, cidx, err, historyVars,
                   cbPosted, debugVars>>

ApiLockSetRelease(w) ==
    LET res == lockSetRelease(w)
    IN  /\ Leaves(res.st)
        /\ allLocksAcquired' = [allLocksAcquired EXCEPT ![w] = res.acquired]
        /\ lastCall' = LockSetCall("release", w, res.st)
        /\ UNCHANGED <<configVars, registeredInQutexQueues, hasBeenReleased,
                       thr, cst, cidx, err, historyVars, cbPosted, debugVars>>

ApiReleaseQutexEarly(w, q) ==
    LET res == lockSetReleaseQutexEarly(w, q)
    IN  /\ Leaves(res.st)
        /\ hasBeenReleased' =
               [hasBeenReleased EXCEPT ![w][q] = @ \/ res.released]
        /\ lastCall' = LockSetCall("releaseQutexEarly", w, res.st)
        /\ UNCHANGED <<configVars, registeredInQutexQueues, allLocksAcquired,
                       thr, cst, cidx, err, historyVars, cbPosted, debugVars>>

NextLockSet ==
    \/ \E w \in LockSets : ApiRegisterInQutexQueues(w)
    \/ \E w \in LockSets : ApiTryAcquireOrBackOff(w)
    \/ \E w \in LockSets : ApiUnregisterFromQutexQueues(w)
    \/ \E w \in LockSets : ApiLockSetRelease(w)
    \/ \E w \in LockSets, q \in 1..MainQutexes : ApiReleaseQutexEarly(w, q)

SpecLockSet == InitLockSet /\ [][NextLockSet]_vars


\* ---- original callbacks in the io_service queues --------------------------------

\* the reactor loop runs the task that invokes an original callback
RunCallback(r) ==
    /\ Running
    /\ At(r, "idle")
    /\ ioq[r] # <<>>
    /\ Head(ioq[r]) \notin Waiters
    /\ ioq' = [ioq EXCEPT ![r] = Tail(@)]
    /\ UNCHANGED <<qutexVars, configVars, isAwakeOrBeingAwakened, lockSetVars,
                   thr, cst, cidx, err, historyVars, cbPosted, lastCall,
                   debugVars>>

\* Continuation 1 is in its body and holds qutex A; the other continuations
\* are still to be created, with the LockSet {A}; each continuation's caller
\* runs on any reactor.
InitCallbacks ==
    /\ queue = [q \in Qutexes |-> <<>>]
    /\ isOwned = [q \in Qutexes |-> q = 1]
    /\ locks = [w \in Waiters |-> IF w = 1 THEN <<1>> ELSE <<>>]
    /\ target = [w \in Waiters |-> 1]
    /\ isAwakeOrBeingAwakened = [w \in Waiters |-> w = 1]
    /\ allLocksAcquired = [w \in Waiters |-> w = 1]
    /\ registeredInQutexQueues = [w \in Waiters |-> w = 1]
    /\ hasBeenReleased = [w \in Waiters |-> [q \in Qutexes |-> FALSE]]
    /\ ioq = [r \in Reactors |-> <<>>]
    /\ thr = [r \in Reactors |-> Idle]
    /\ cst = [w \in Waiters |-> IF w = 1 THEN "body" ELSE "unborn"]
    /\ cidx = [w \in Waiters |-> IF w = 1 THEN 2 ELSE 0]
    /\ err = "none"
    /\ heldBy = [q \in Qutexes |-> IF q = 1 THEN {1} ELSE {}]
    /\ relCount = [w \in Waiters |-> [q \in Qutexes |-> 0]]
    /\ bodyRuns = [w \in Waiters |-> IF w = 1 THEN 1 ELSE 0]
    /\ failed = [w \in Waiters |-> FALSE]
    /\ wakePosts = [w \in Waiters |-> 0]
    /\ cbPosted = [w \in Waiters |-> FALSE]
    /\ lastCall = [op |-> "none"]
    /\ scenario = Callbacks
    /\ callerContinuation = [w \in Waiters |-> NoWaiter]
    /\ cbFnT = [w \in Waiters |-> 1]
    /\ timedOut = [w \in Waiters |-> FALSE]
    /\ acquisitionHistory = [w \in Waiters |-> NoEntry]
    /\ deadlocks = {}
    /\ gridlocks = {}
    /\ cycles = {}
    /\ caller \in [Waiters -> Reactors]
    /\ \A w \in Waiters : w > ScenarioN[Callbacks] => caller[w] = 1
    /\ wokenBy = [w \in Waiters |-> {}]

\* LockSets of one qutex never back off
NextCallbacks ==
    \/ \E w \in Waiters, ls \in MainLockLists, r \in Reactors :
           Construct(w, ls, r)
    \/ \E w \in Waiters : RegisterStep(w)
    \/ \E w \in Waiters : FirstWakePost(w)
    \/ \E r \in Reactors : Dequeue(r)
    \/ \E r \in Reactors : RunCallback(r)
    \/ \E r \in Reactors : TryAcquireStep(r)
    \/ \E r \in Reactors : AllowAwakening(r)
    \/ \E r \in Reactors : UnregisterStep(r)
    \/ \E w \in Waiters : CallOriginalCb(w)
    \/ \E r \in Reactors : ReleaseStep(r)
    \/ \E r \in Reactors : ReleaseWake(r)

SpecCallbacks == InitCallbacks /\ [][NextCallbacks]_vars

\* C19: while the original callback that a continuation posted after its
\* release is still in a reactor's queue, every waiter of that reactor which
\* the release awakened and which has not started an execution since is in
\* the same queue, ahead of the callback.
C19_ReleaseWakeOrdering ==
    \A w1, w2 \in Waiters, c \in Reactors :
        (/\ CallbackOf(w1) \in Range(ioq[c])
         /\ w2 \in wokenBy[w1] /\ target[w2] = c
         /\ \A r \in Reactors : thr[r].w # w2)
            => /\ w2 \in Range(ioq[c])
               /\ IndexOf(ioq[c], w2) < IndexOf(ioq[c], CallbackOf(w1))

\* ---- error handling of Qutex and LockSet ----------------------------------------

\* C16: release on a qutex that is not owned, and tryAcquire or backoff on an
\* empty queue, raise an error and leave isOwned and the queue as they were.
C16_QutexErrorsChangeNothing ==
    LET misuse == \/ lastCall.op = "release" /\ ~lastCall.owned
                  \/ lastCall.op \in {"tryAcquire", "backoff"}
                         /\ lastCall.before = <<>>
    IN  (lastCall.op # "none" /\ misuse)
            => /\ lastCall.err
               /\ isOwned[TheQutex] = lastCall.owned
               /\ queue[TheQutex] = lastCall.before

\* backoff was called on the empty queue of an owned qutex
C16_Witness ==
    /\ lastCall.op = "backoff" /\ lastCall.before = <<>> /\ lastCall.owned
    /\ lastCall.err /\ isOwned[TheQutex] /\ queue[TheQutex] = <<>>

\* C17: tryAcquireOrBackOff, release and unregisterFromQutexQueues on a LockSet
\* that was never registered raise an error without calling any Qutex
\* operation; release and releaseQutexEarly raise an error when
\* allLocksAcquired is false; tryAcquireOrBackOff raises an error when
\* allLocksAcquired is already true; none of these calls changes anything.
C17_LockSetPreconditions ==
    LET c == lastCall
        violation ==
            \/ c.op \in {"tryAcquireOrBackOff", "release",
                         "unregisterFromQutexQueues"} /\ ~c.registered
            \/ c.op \in {"release", "releaseQutexEarly"} /\ ~c.acquired
            \/ c.op = "tryAcquireOrBackOff" /\ c.acquired
    IN  (c.op # "none" /\ violation)
            => /\ c.err
               /\ c.calls = 0
               /\ queue = c.queue /\ isOwned = c.isOwned
               /\ allLocksAcquired[c.w] = c.acquired
               /\ registeredInQutexQueues[c.w] = c.registered

\* tryAcquireOrBackOff was called on a LockSet that holds all its qutexes
C17_Witness ==
    /\ lastCall.op = "tryAcquireOrBackOff" /\ lastCall.acquired /\ lastCall.err
    /\ \A q \in Range(locks[lastCall.w]) : isOwned[q]

\* C18: release on an owned qutex sets isOwned to false, leaves the queue as
\* it is and calls awaken exactly when the queue is not empty, on the waiter
\* at its front.
C18_ReleaseWakesFront ==
    (lastCall.op = "release" /\ lastCall.owned)
        => /\ ~lastCall.err
           /\ ~isOwned[TheQutex]
           /\ queue[TheQutex] = lastCall.before
           /\ lastCall.wake # NoWaiter <=> lastCall.before # <<>>
           /\ lastCall.before # <<>> => lastCall.wake = lastCall.before[1]

\* an owned qutex with several waiters was released
C18_Witness ==
    /\ lastCall.op = "release" /\ lastCall.owned /\ ~isOwned[TheQutex]
    /\ Len(lastCall.before) >= 2 /\ lastCall.wake = lastCall.before[1]

\* C20: once the original callback of a continuation has been posted, every
\* qutex of its LockSet has been released exactly once, early or by
\* LockSet::release, the continuation holds none of them, and no thread is
\* still inside its LockSet::release or the awaken() of one of its releases.
C20_CompletionOrdering ==
    \A w \in Waiters :
        cbPosted[w]
            => /\ \A q \in Range(locks[w]) :
                      relCount[w][q] = 1 /\ w \notin heldBy[q]
               /\ \A r \in Reactors :
                      thr[r].w = w => thr[r].pc \notin {"release", "releaseWake"}

\* a callback was posted after one qutex had been released early, another by
\* LockSet::release, and the other continuation was awakened and ran
C20_Witness ==
    \E w, v \in Waiters :
        /\ cbPosted[w] /\ w # v /\ bodyRuns[v] >= 1 /\ failed[v]
        /\ \E q, p \in Range(locks[w]) :
               hasBeenReleased[w][q] /\ ~hasBeenReleased[w][p]

\* ---- backoff ----------------------------------------------------------------------

\* C21: backoff(w, S) with w at the front of a queue of length Q > 1 moves w
\* to the 1-based position min(S, Q), the other waiters keep their relative
\* order and w is not at the front afterwards; when w is not at the front
\* the queue order is unchanged.
C21_BackoffReorderRule ==
    LET c == lastCall
        Q == Len(c.before)
        k == IF c.n < Q THEN c.n ELSE Q
        rest == Tail(c.before)
        moved == SubSeq(rest, 1, k - 1) \o <<c.w>> \o SubSeq(rest, k, Q - 1)
    IN  (c.op = "backoff" /\ Q >= 1)
            => IF c.before[1] = c.w /\ Q > 1
               THEN queue[TheQutex] = moved /\ queue[TheQutex][1] # c.w
               ELSE queue[TheQutex] = c.before

\* C21 (amended): the reorder rule for S >= 2; backoff(w, 1) with w at the
\* front raises an error and leaves the queue as it was.
C21_BackoffReorderRuleAmended ==
    LET c == lastCall
        Q == Len(c.before)
        k == IF c.n < Q THEN c.n ELSE Q
        rest == Tail(c.before)
        moved == SubSeq(rest, 1, k - 1) \o <<c.w>> \o SubSeq(rest, k, Q - 1)
    IN  (c.op = "backoff" /\ Q >= 1)
            => IF c.before[1] = c.w /\ Q > 1 /\ c.n >= 2
               THEN /\ ~c.err
                    /\ queue[TheQutex] = moved /\ queue[TheQutex][1] # c.w
               ELSE IF c.before[1] = c.w /\ c.n = 1
               THEN c.err /\ queue[TheQutex] = c.before
               ELSE queue[TheQutex] = c.before

\* the front of a queue of four backed off with S = 2 and is now second
C21_Witness ==
    /\ lastCall.op = "backoff" /\ lastCall.n = 2 /\ Len(lastCall.before) = 4
    /\ lastCall.before[1] = lastCall.w
    /\ queue[TheQutex][2] = lastCall.w
    /\ queue[TheQutex][1] = lastCall.before[2]

\* C22: when tryAcquireOrBackOff fails after acquiring k qutexes, backoff is
\* called on exactly those k qutexes, in the reverse of the order in which
\* they were acquired
C22_BackoffInReverseOrder ==
    LET c == lastCall
    IN  (c.op = "tryAcquireOrBackOff" /\ ~c.err
         /\ Len(c.acquiredQutexes) < Len(locks[c.w]))
            => LET k == Len(c.acquiredQutexes)
               IN  /\ Len(c.backedOff) = k
                   /\ \A i \in 1..k :
                          c.backedOff[i] = c.acquiredQutexes[k + 1 - i]

\* C23: every backoff(w, S) call on a non-empty queue leaves isOwned false and
\* calls awaken on the waiter at the queue front after any reordering, unless
\* the queue holds a single entry, in which case nobody is awakened; the
\* awakened front is never w itself
C23_BackoffFreesAndWakesFront ==
    LET c == lastCall
        Q == Len(c.before)
    IN  (c.op = "backoff" /\ Q >= 1)
            => /\ ~isOwned[TheQutex]
               /\ c.wake = IF Q = 1 THEN NoWaiter ELSE queue[TheQutex][1]
               /\ c.wake # c.w

\* C23 (amended): the same of every call that is not backoff(w, 1) with w at
\* the front; that call raises an error, leaves isOwned as it was and awakens
\* nobody
C23_BackoffFreesAndWakesFrontAmended ==
    LET c == lastCall
        Q == Len(c.before)
    IN  (c.op = "backoff" /\ Q >= 1)
            => IF c.before[1] = c.w /\ c.n = 1
               THEN /\ c.err
                    /\ isOwned[TheQutex] = c.owned
                    /\ c.wake = NoWaiter
               ELSE /\ ~c.err
                    /\ ~isOwned[TheQutex]
                    /\ c.wake = IF Q = 1 THEN NoWaiter ELSE queue[TheQutex][1]
                    /\ c.wake # c.w

C23_Witness ==
    /\ lastCall.op = "backoff" /\ lastCall.n = 2 /\ lastCall.owned
    /\ Len(lastCall.before) = 3
    /\ lastCall.before[1] = lastCall.w
    /\ lastCall.wake = lastCall.before[2]
    /\ ~isOwned[TheQutex]

\* ---- queue membership ---------------------------------------------------------

\* C24: from its construction (registration is part of it) until its
\* acquisition succeeds a lockvoker is exactly once in the queue of every qutex
\* of its LockSet and in no other queue; tryAcquire, backoff and release never
\* add or remove an entry; the only removal is the waiter's own
\* unregisterFromQutexQueues right after its successful acquisition, after
\* which it is in no queue
C24_QueueMembership ==
    \A w \in Waiters :
        LET times(q) ==
                Cardinality({i \in 1..Len(queue[q]) : queue[q][i] = w})
            position(q) == IndexOf(locks[w], q)
            unregistering ==
                \E r \in Reactors : thr[r].w = w /\ thr[r].pc = "unregister"
            unregistered ==
                \/ cst[w] \in {"body", "releasing", "done"}
                \/ \E r \in Reactors : thr[r].w = w /\ thr[r].pc = "untrack"
            erased ==
                IF unregistering
                THEN thr[CHOOSE r \in Reactors : thr[r].w = w].i - 1
                ELSE 0
        IN  \A q \in Qutexes :
                times(q) =
                    IF q \notin Range(locks[w]) THEN 0
                    ELSE IF cst[w] \in {"unborn", "refused"} THEN 0
                    ELSE IF cst[w] = "registering"
                    THEN (IF position(q) < cidx[w] THEN 1 ELSE 0)
                    ELSE IF unregistered THEN 0
                    ELSE IF unregistering
                    THEN (IF position(q) <= erased THEN 0 ELSE 1)
                    ELSE 1

C24_Witness ==
    \E w, v \in Waiters :
        /\ failed[w] /\ cst[w] = "waiting" /\ LockSetSize(w) = 2
        /\ \A q \in Range(locks[w]) : w \in Range(queue[q])
        /\ cst[v] = "body"
        /\ \A q \in Qutexes : v \notin Range(queue[q])

\* C25: the registeredInQutexQueues flag of a LockSet is true if and only if
\* the iterators stored in its LockUsageDesc entries are valid, that is, refer
\* to entries currently present in the queues of its qutexes
C25_RegisteredIffHandlesValid ==
    \A w \in Waiters :
        cst[w] # "unborn"
            => (registeredInQutexQueues[w]
                    <=> \A q \in Range(locks[w]) : w \in Range(queue[q]))

\* C25 (amended): the flag is true if and only if the iterators are valid or
\* unregisterFromQutexQueues has been called, which erases the entries and
\* leaves the flag set
C25_RegisteredIffHandlesValidAmended ==
    \A w \in Waiters :
        LET unregisterCalled ==
                \/ cst[w] \in {"body", "releasing", "done"}
                \/ \E r \in Reactors :
                       thr[r].w = w /\ thr[r].pc \in {"unregister", "untrack"}
        IN  cst[w] # "unborn"
                => (registeredInQutexQueues[w]
                        <=> IF unregisterCalled THEN TRUE
                            ELSE \A q \in Range(locks[w]) :
                                     w \in Range(queue[q]))

C25_Witness ==
    \E w \in Waiters :
        /\ cst[w] = "releasing" /\ LockSetSize(w) = 2
        /\ registeredInQutexQueues[w]
        /\ \A q \in Qutexes : w \notin Range(queue[q])

\* ---- first wake and suspension -----------------------------------------------

\* C26: constructing a continuation results in exactly one task for its
\* lockvoker, on its target reactor: while it registers and until firstWake
\* posts it, it has no task on any reactor, whoever calls awaken on it
\* meanwhile, and the post of firstWake leaves it with one
C26_FirstWakeOneTask ==
    [][\A w \in Waiters :
          LET slots(io) ==
                  UNION {{<<r, i>> : i \in 1..Len(io[r])} : r \in Reactors}
              tasks(io) ==
                  Cardinality({p \in slots(io) : io[p[1]][p[2]] = w})
          IN  /\ cst'[w] \in {"registering", "posting"}
                    => /\ tasks(ioq') = 0
                       /\ \A r \in Reactors : thr'[r].w # w
              /\ (cst[w] = "posting" /\ cst'[w] = "waiting")
                    => /\ tasks(ioq') = 1
                       /\ w \in Range(ioq'[target[w]])]_vars

\* a release has called awaken on w after its registration and before the
\* post of its first wake
C26_Witness ==
    \E w, v \in Waiters :
        /\ cst[w] = "posting"
        /\ w \in wokenBy[v]
        /\ \A r \in Reactors : w \notin Range(ioq[r])

C28_TrackerMembership ==
    \A w \in Waiters :
        /\ w \in Tracked(acquisitionHistory) => failed[w] /\ timedOut[w]
        /\ cst[w] \in {"body", "releasing", "done"}
              => w \notin Tracked(acquisitionHistory)

\* a continuation that was tracked and reported as a likely gridlock has
\* acquired its LockSet since
C28_Witness ==
    \E w \in Waiters :
        /\ cst[w] = "body" /\ failed[w]
        /\ w \notin Tracked(acquisitionHistory)
        /\ \E q \in Qutexes : <<w, q>> \in gridlocks

\* C29: once the gridlock detector has run tracker.addIfNotExists for a failed
\* attempt past the timeout, the tracker entry of the current continuation
\* records as wanted the first qutex that failed in this very attempt and as
\* held the qutexes of the LockSets of its ancestors, also when the
\* continuation was already tracked from an earlier attempt
C29_TrackerEntryIsCurrent ==
    \A r \in Reactors :
        thr[r].pc \in {"heuristic", "complete"}
            => LET w == thr[r].w
               IN  /\ acquisitionHistory[w].wanted = thr[r].ff
                   /\ acquisitionHistory[w].held =
                          UNION {Range(locks[a]) :
                                     a \in Chain(callerContinuation[w])}

\* ---- the history tracker driven through its API --------------------------------

TrackerApi == "trackerApi"
NumTracked == 3
TrackerKeys == 1..NumTracked
TrackerCall(op, c, q, ret) == [op |-> op, c |-> c, q |-> q, ret |-> ret]


ApiAddIfNotExists(c, wanted, held) ==
    /\ acquisitionHistory' = addIfNotExists(acquisitionHistory, c, wanted, held)
    /\ lastCall' = TrackerCall("addIfNotExists", c, wanted,
                               c \notin Tracked(acquisitionHistory))
    /\ UNCHANGED <<qutexVars, configVars, isAwakeOrBeingAwakened, lockSetVars,
                   ioq, thr, cst, cidx, err, historyVars, cbPosted, timedOut,
                   deadlocks, gridlocks, cycles>>

ApiTrackerRemove(c) ==
    /\ acquisitionHistory' = remove(acquisitionHistory, c)
    /\ lastCall' = TrackerCall("remove", c, NoQutex,
                               c \in Tracked(acquisitionHistory))
    /\ UNCHANGED <<qutexVars, configVars, isAwakeOrBeingAwakened, lockSetVars,
                   ioq, thr, cst, cidx, err, historyVars, cbPosted, timedOut,
                   deadlocks, gridlocks, cycles>>

ApiHeuristicTrace(q, c) ==
    /\ lastCall' = TrackerCall("heuristic", c, q,
                       heuristicallyTraceContinuationHistoryForGridlockOn(
                           acquisitionHistory, q, c))
    /\ UNCHANGED <<qutexVars, configVars, isAwakeOrBeingAwakened, lockSetVars,
                   ioq, thr, cst, cidx, err, historyVars, cbPosted, debugVars>>

\* the (from, to) pairs completelyTraceContinuationHistoryForGridlockOn prints
\* for one cycle: every consecutive pair, then the pair (last, first)
printedDependencies(cycle) ==
    {<<cycle[j], cycle[j + 1]>> : j \in 1..(Len(cycle) - 1)}
        \cup {<<cycle[Len(cycle)], cycle[1]>>}

\* completelyTraceContinuationHistoryForGridlockOn, under acquisitionHistoryLock
\* from generateGraph(true) to the last line printed
completelyTraceContinuationHistoryForGridlockOn(h) ==
    LET graph == generateGraph(h)
        nodes == Tracked(h)
    IN  IF ~hasCycles(graph, nodes)
        THEN [ret |-> FALSE, found |-> {}, printed |-> {}]
        ELSE LET found == findCycles(graph, nodes)
             IN  [ret |-> TRUE, found |-> found,
                  printed |-> UNION {printedDependencies(cy) : cy \in found}]

ApiCompleteTrace(q) ==
    /\ LET res == completelyTraceContinuationHistoryForGridlockOn(
                      acquisitionHistory)
       IN  lastCall' = [op |-> "complete", c |-> NoWaiter, q |-> q,
                        ret |-> res.ret, found |-> res.found,
                        printed |-> res.printed]
    /\ UNCHANGED <<qutexVars, configVars, isAwakeOrBeingAwakened, lockSetVars,
                   ioq, thr, cst, cidx, err, historyVars, cbPosted, debugVars>>

NextTracker ==
    \/ \E q \in 1..MainQutexes : ApiCompleteTrace(q)
    \/ \E c \in TrackerKeys, wanted \in 1..MainQutexes,
          held \in SUBSET (1..MainQutexes) : ApiAddIfNotExists(c, wanted, held)
    \/ \E c \in TrackerKeys : ApiTrackerRemove(c)
    \/ \E c \in TrackerKeys, q \in 1..MainQutexes : ApiHeuristicTrace(q, c)

SpecTracker == InitOf(TrackerApi) /\ [][NextTracker]_vars

\* C30: the heuristic stage reports a likely gridlock if and only if some
\* tracker entry other than the current continuation's own lists the wanted
\* (first failed) qutex in its held list; the own entry never triggers it
C30_HeuristicReportsIffOtherHolds ==
    LET c == lastCall
    IN  c.op = "heuristic"
            => (c.ret <=> \E o \in Waiters \ {c.c} :
                              /\ acquisitionHistory[o] # NoEntry
                              /\ c.q \in acquisitionHistory[o].held)

\* the current continuation's own entry lists the wanted qutex as held, no
\* other entry does, and nothing is reported
C30_Witness ==
    /\ lastCall.op = "heuristic" /\ ~lastCall.ret
    /\ lastCall.q \in acquisitionHistory[lastCall.c].held
    /\ Cardinality(Tracked(acquisitionHistory)) = NumTracked

\* ---- the complete stage and the dependency graph -------------------------------

\* C31: the complete stage runs only when the heuristic stage fired, and it
\* reports a confirmed gridlock if and only if the directed graph over the
\* tracker entries, with an edge A -> B for A # B exactly when A's wanted qutex
\* is in B's held list, contains a cycle
C31_CompleteStageReportsCycles ==
    [][\A r \in Reactors :
          LET h == acquisitionHistory
              w == thr[r].w
              q == thr[r].ff
              entries == {c \in Waiters : h[c] # NoEntry}
              edges == {e \in entries \X entries :
                           e[1] # e[2] /\ h[e[1]].wanted \in h[e[2]].held}
              longer(R) ==
                  R \cup {<<p[1][1], p[2][2]>> :
                              p \in {x \in R \X edges : x[1][2] = x[2][1]}}
              walks == longer(longer(longer(longer(edges))))
              cyclic == \E c \in entries : <<c, c>> \in walks
              found == findCycles(generateGraph(h), Tracked(h))
          IN  /\ (thr[r].pc # "complete" /\ thr'[r].pc = "complete")
                    => /\ thr[r].pc = "heuristic"
                       /\ \E o \in entries \ {w} : q \in h[o].held
              /\ (thr[r].pc = "complete" /\ thr'[r].pc # "complete")
                    => IF cyclic
                       THEN found # {} /\ cycles' = cycles \cup found
                       ELSE found = {} /\ cycles' = cycles]_vars

\* the complete stage has run for a continuation whose entry is on a cycle of
\* the graph, and the cycle is recorded
C31_Witness ==
    \E c \in cycles :
        /\ Len(c) = 3
        /\ <<c[1], acquisitionHistory[c[1]].wanted>> \in gridlocks

\* ---- the DependencyGraph driven through its API -------------------------------

GraphApi == "graphApi"
NumNodes == 3
Nodes == 1..NumNodes
\* the graph object is local to its user: it is carried from call to call
TheGraph ==
    IF lastCall.op = "none" THEN [nodes |-> {}, edges |-> {}]
    ELSE lastCall.graph
GraphCall(op, g, ret, found) ==
    [op |-> op, graph |-> g, ret |-> ret, found |-> found]

\* DependencyGraph::addNode and addEdge
addNode(g, node) == [g EXCEPT !.nodes = @ \cup {node}]
addEdge(g, source, dest) ==
    [addNode(addNode(g, source), dest) EXCEPT
        !.edges = @ \cup {<<source, dest>>}]


ApiAddNode(node) ==
    /\ lastCall' = GraphCall("addNode", addNode(TheGraph, node), FALSE, {})
    /\ UNCHANGED <<qutexVars, configVars, isAwakeOrBeingAwakened, lockSetVars,
                   ioq, thr, cst, cidx, err, historyVars, cbPosted, debugVars>>

ApiAddEdge(source, dest) ==
    /\ lastCall' = GraphCall("addEdge", addEdge(TheGraph, source, dest),
                             FALSE, {})
    /\ UNCHANGED <<qutexVars, configVars, isAwakeOrBeingAwakened, lockSetVars,
                   ioq, thr, cst, cidx, err, historyVars, cbPosted, debugVars>>

ApiHasCycles ==
    /\ lastCall' = GraphCall("hasCycles", TheGraph,
                             hasCycles(TheGraph.edges, TheGraph.nodes), {})
    /\ UNCHANGED <<qutexVars, configVars, isAwakeOrBeingAwakened, lockSetVars,
                   ioq, thr, cst, cidx, err, historyVars, cbPosted, debugVars>>

ApiFindCycles ==
    /\ lastCall' = GraphCall("findCycles", TheGraph, FALSE,
                             findCycles(TheGraph.edges, TheGraph.nodes))
    /\ UNCHANGED <<qutexVars, configVars, isAwakeOrBeingAwakened, lockSetVars,
                   ioq, thr, cst, cidx, err, historyVars, cbPosted, debugVars>>

NextGraph ==
    \/ \E node \in Nodes : ApiAddNode(node)
    \/ \E source, dest \in Nodes : ApiAddEdge(source, dest)
    \/ ApiHasCycles
    \/ ApiFindCycles

SpecGraph == InitOf(GraphApi) /\ [][NextGraph]_vars

\* C32: hasCycles returns true if and only if the graph contains a directed
\* cycle, which is also exactly when findCycles returns a non-empty list;
\* every cycle findCycles returns is a closed walk along edges of the graph
C32_CycleDetectionIsExact ==
    LET c == lastCall
        g == TheGraph
        longer(R) ==
            R \cup {<<p[1][1], p[2][2]>> :
                        p \in {x \in R \X g.edges : x[1][2] = x[2][1]}}
        walks == longer(longer(longer(longer(g.edges))))
        cyclic == \E n \in g.nodes : <<n, n>> \in walks
    IN  /\ c.op = "hasCycles" => (c.ret <=> cyclic)
        /\ c.op = "findCycles"
              => /\ (c.found # {}) <=> cyclic
                 /\ \A cy \in c.found :
                        /\ Len(cy) >= 2
                        /\ cy[1] = cy[Len(cy)]
                        /\ \A k \in 1..(Len(cy) - 1) :
                               <<cy[k], cy[k + 1]>> \in g.edges

\* findCycles has returned a cycle through all the nodes of a graph that also
\* has an edge into an already visited node
C32_Witness ==
    /\ lastCall.op = "findCycles"
    /\ \E cy \in lastCall.found : Len(cy) = NumNodes + 1
    /\ Cardinality(lastCall.graph.edges) > NumNodes

\* C33: every cycle the complete stage reports is a cycle of the graph
\* generated from the tracker contents at the instant of the report, and every
\* edge it prints for a reported cycle is an edge of that graph
C33_ReportedCyclesAreInGraph ==
    LET c == lastCall
        graph == generateGraph(acquisitionHistory)
    IN  c.op = "complete"
            => /\ \A cy \in c.found :
                      /\ cy[1] = cy[Len(cy)]
                      /\ \A k \in 1..(Len(cy) - 1) :
                             <<cy[k], cy[k + 1]>> \in graph
               /\ \A e \in c.printed : e \in graph

\* ---- debug build with early release -------------------------------------------

\* the debug scenario without the timeout: bodies may release a qutex early
\* before they create the next continuation; one more continuation is created
\* next to the two that hold a qutex
EarlyWaiters == 3
NextDebugEarly ==
    \/ \E w \in 1..EarlyWaiters, ls \in MainLockLists, r \in Reactors :
           Construct(w, ls, r)
    \/ \E w \in 1..EarlyWaiters, p \in Waiters, ty \in CbTypes,
           ls \in MainLockLists, r \in Reactors :
           ConstructNested(w, p, ty, ls, r)
    \/ \E w \in Waiters : RegisterStep(w)
    \/ \E w \in Waiters : FirstWakePost(w)
    \/ \E r \in Reactors : Dequeue(r)
    \/ \E r \in Reactors : TryAcquireStep(r)
    \/ \E r \in Reactors : AllowAwakening(r)
    \/ \E r \in Reactors : UnregisterStep(r)
    \/ \E w \in Waiters, q \in Qutexes : ReleaseQutexEarly(w, q)
    \/ \E r \in Reactors : EarlyWake(r)
    \/ \E w \in Waiters : CallOriginalCb(w)
    \/ \E r \in Reactors : ReleaseStep(r)
    \/ \E r \in Reactors : ReleaseWake(r)

SpecDebugEarly == InitDebug /\ [][NextDebugEarly]_vars

\* C34: the deadlock check of the constructor reports qutex q for a new
\* continuation only when a continuation of its caller chain holds q at that
\* moment: it acquired q and has released neither q early nor its LockSet.
C34_DeadlockOnlyOnHeldQutex ==
    [][\A w \in Waiters, q \in Qutexes :
           (cst[w] = "unborn" /\ <<w, q>> \in deadlocks')
               => \E a \in Chain(callerContinuation'[w]) :
                      /\ q \in Range(locks[a])
                      /\ a \in heldBy[q]
                      /\ allLocksAcquired[a]
                      /\ ~hasBeenReleased[a][q]]_vars


\* ---- the owner a qutex records in a debug build ---------------------------------

\* Qutex::currOwner: set by a successful tryAcquire, cleared by backoff and by
\* release
currOwner(q) ==
    IF heldBy[q] = {} THEN NoWaiter ELSE CHOOSE w \in heldBy[q] : TRUE

\* C35 (as stated): in a debug build the owner a qutex records is registered
\* in the queue of at least one qutex.
C35_OwnerIsRegistered ==
    \A q \in Qutexes :
        (DebugLocks /\ currOwner(q) # NoWaiter) => InSomeQueue(currOwner(q))

\* C35 (amended): in a debug build the owner a qutex records is registered in
\* the queue of at least one qutex, or it has acquired every qutex of its
\* LockSet (and has left the queues to run its body).
C35_OwnerIsRegisteredAmended ==
    \A q \in Qutexes :
        (DebugLocks /\ currOwner(q) # NoWaiter)
            => \/ InSomeQueue(currOwner(q))
               \/ \A o \in Range(locks[currOwner(q)]) :
                      HasAcquired(currOwner(q), o)

\* a continuation created in the run owns both qutexes of its LockSet and is in
\* no queue, while another owner is still registered
C35_Witness ==
    \E w \in Waiters \ DebugHolders :
        /\ LockSetSize(w) = 2
        /\ \A q \in Range(locks[w]) : currOwner(q) = w
        /\ ~InSomeQueue(w)


\* ---- the SpinLock of a qutex ------------------------------------------------------

\* C36: every Qutex operation leaves the SpinLock of the qutex released when
\* it returns or throws, so that a later operation on the qutex does not spin
\* forever.
C36_SpinLockReleasedOnExit == ~SpinLockHeld(lastCall)


\* ---- awaken() after the SpinLock was dropped --------------------------------------

\* C37: when the release or backoff of a LockSet is about to call awaken() on
\* the waiter it read as the front of a qutex's queue, that waiter is still
\* registered in the queue of that qutex.
C37_AwakenedFrontStillRegistered ==
    \A r \in Reactors :
        (Running /\ thr[r].pc \in {"backoffWake", "releaseWake"})
            => thr[r].wk \in Range(queue[locks[thr[r].w][thr[r].i]])


\* ---- wakes across reactors --------------------------------------------------------


\* as SpecSingle, with the continuations on either reactor: every reactor keeps
\* running its tasks and every body eventually calls its original callback
SpecCrossReactor ==
    InitOf(CrossReactor) /\ [][NextSingle]_vars /\ WF_vars(NextSingle)

\* C38: no wake is lost across reactors: a waiter on which a release or
\* backoff on one reactor is calling awaken() while its lockvoker, on another
\* reactor, has failed its tryAcquire and has not yet reset
\* isAwakeOrBeingAwakened, is executed again afterwards (unless the program
\* has stopped on an error).
C38_NoLostWake ==
    \A w \in Waiters :
        (/\ Running
         /\ \E r, o \in Reactors :
                /\ r # o
                /\ thr[r].pc \in WakePcs /\ thr[r].wk = w
                /\ thr[o].w = w /\ thr[o].pc = "allow")
            ~> (~Running \/ \E r \in Reactors : thr[r].w = w /\ thr[r].pc = "acquire")


\* ---- the tasks of a lockvoker -----------------------------------------------------

\* where a reactor is while it executes LockerAndInvoker::operator()
LockvokerPcs ==
    {"acquire", "backoff", "backoffWake", "allow", "track", "heuristic",
     "complete", "unregister", "untrack"}

\* where it is after allowAwakening() has reset isAwakeOrBeingAwakened (debug
\* build: the tracker calls at the end of a failed attempt)
AfterAllowPcs == {"track", "heuristic", "complete"}

\* the tasks of w's lockvoker that are pending in an io_service queue or
\* executing on a reactor at one of pcs
TasksOf(w, pcs) ==
    Cardinality({<<r, i>> \in Reactors \X (1..NumWaiters * 2) :
                     i <= Len(ioq[r]) /\ ioq[r][i] = w})
        + Cardinality({r \in Reactors : thr[r].w = w /\ thr[r].pc \in pcs})

\* C39 (as stated): at most one task of a lockvoker is pending or executing
\* at any time, its body is invoked at most once, and no task of it is pending
\* or executing once its acquisition has succeeded and it has left the queues.
C39_OneTaskOneBody ==
    \A w \in Waiters :
        /\ TasksOf(w, LockvokerPcs) <= 1
        /\ bodyRuns[w] <= 1
        /\ cst[w] \in {"body", "releasing", "done"}
               => TasksOf(w, LockvokerPcs) = 0

\* C39 (amended): the same, where an executing task counts until it has
\* called allowAwakening().
C39_OneTaskOneBodyAmended ==
    \A w \in Waiters :
        /\ TasksOf(w, LockvokerPcs \ AfterAllowPcs) <= 1
        /\ bodyRuns[w] <= 1
        /\ cst[w] \in {"body", "releasing", "done"}
               => TasksOf(w, LockvokerPcs) = 0

\* a task of w is pending while the failed attempt before it is still in its
\* tracker calls
C39_Witness ==
    \E w \in Waiters, r \in Reactors :
        /\ thr[r].w = w /\ thr[r].pc \in AfterAllowPcs
        /\ w \in Range(ioq[r])

\* ---- FIFO among single-lock waiters -------------------------------------------------

\* C40: on a qutex all of whose waiters have a LockSet of size 1 the waiters
\* acquire in the order of their registration: the one that acquires is the
\* front of the queue, no earlier-registered waiter is still queued.
C40_SingleLockFifo ==
    [][\A q \in Qutexes, w \in Waiters :
           (/\ w \notin heldBy[q] /\ w \in heldBy'[q]
            /\ \A v \in Range(queue[q]) : LockSetSize(v) = 1)
               => /\ queue[q] # <<>>
                  /\ queue[q][1] = w
                  /\ \A v \in Range(queue'[q]) \ {w} :
                         IndexOf(queue'[q], w) < IndexOf(queue'[q], v)]_vars

\* a single-lock waiter has acquired a qutex ahead of two single-lock waiters
\* that registered after it
C40_Witness ==
    \E q \in Qutexes, w \in Waiters :
        /\ heldBy[q] = {w}
        /\ Len(queue[q]) = 3
        /\ queue[q][1] = w
        /\ \A v \in Range(queue[q]) : LockSetSize(v) = 1


====
